---- MODULE Spec2Model ----
(***************************************************************************)
(* Microscopic traffic simulation of citybound                             *)
(* (src/game/transport/microtraffic/mod.rs): the plain Lane and the        *)
(* TransferLane actors, their message handlers and the interaction         *)
(* resolver.                                                               *)
(*                                                                         *)
(* Numbers.  The source computes in f32.  The model is fixed point:        *)
(* a longitudinal position, velocity or acceleration x of the source is    *)
(* the integer 10*x (position 2.0 is 20, the 0.1 margin is 1), a lateral   *)
(* transfer_position/velocity/acceleration x is 10*x as well, and one      *)
(* unit of time is one slowed-down dt (dt / 20).  Rounding of f32 is not   *)
(* modelled.  construction.progress (cosmetic, never read by this file)    *)
(* is left out of the lane state.                                          *)
(***************************************************************************)
EXTENDS Integers, Sequences, FiniteSets, TLC

VARIABLES
    lanes,      \* plain Lane actors: lane id -> Lane state
    transfer,   \* the TransferLane actor's state
    queue,      \* messages sent and not yet delivered (end-to-end runs)
    now,        \* current_tick of the simulation
    ticked,     \* lanes that already ran tick `now` (end-to-end runs)
    last,       \* the handler that ran last: its name, arguments and output
    spawned,    \* history: the calls so far were all forced spawns with a
                \* known route on the empty lane (their number), else -1
    nextTrip,   \* trips handed out so far (fresh TripIDs)
    panicked    \* a handler panicked (index out of bounds, expect on None)

vars == <<lanes, transfer, queue, now, ticked, last, spawned, nextTrip, panicked>>

----------------------------------------------------------------------------
(* Program constants, in model units.                                      *)

INFINITY == 1000000
MICROTRAFFIC_UNREALISTIC_SLOWDOWN == 20
TRAFFIC_LOGIC_THROTTLING == 30
PATHFINDING_THROTTLING == 10

Min(a, b) == IF a < b THEN a ELSE b
Max(a, b) == IF a > b THEN a ELSE b
Abs(a) == IF a < 0 THEN -a ELSE a
Signum(a) == IF a < 0 THEN -1 ELSE 1

----------------------------------------------------------------------------
(* Values.                                                                 *)

Obstacle(position, velocity, max_velocity) ==
    [position |-> position, velocity |-> velocity, max_velocity |-> max_velocity]

far_ahead == Obstacle(INFINITY, INFINITY, INFINITY)

AsObstacle(car) == Obstacle(car.position, car.velocity, car.max_velocity)

offset_by(o, delta) == [o EXCEPT !.position = o.position + delta]

\* pathfinding::Location and its landmark_destination(): the coarse
\* destination of a location is its landmark, addressed as a node.
Location(landmark, node) == [landmark |-> landmark, node |-> node]

landmark_destination(d) == Location(d.landmark, d.landmark)

LaneCar(trip, o, acceleration, destination, next_hop_interaction) ==
    [trip |-> trip, position |-> o.position, velocity |-> o.velocity,
     max_velocity |-> o.max_velocity, acceleration |-> acceleration,
     destination |-> destination, next_hop_interaction |-> next_hop_interaction]

\* Interaction { partner_lane, start, partner_start, kind }.  kind is "Next"
\* (with green), "Previous" or "Overlap" (with end and okind: "Parallel",
\* "Transfer" or "Conflicting"); the fields a kind does not have hold a
\* default.
Interaction(partner_lane, start, partner_start, kind, green, end, okind) ==
    [partner_lane |-> partner_lane, start |-> start, partner_start |-> partner_start,
     kind |-> kind, green |-> green, end |-> end, okind |-> okind]

NoCar == LaneCar(0, Obstacle(0, 0, 0), 0, Location(0, 0), 0)

\* Messages a handler sends through `world`: to a lane (add_car,
\* add_obstacles, on_signal_changed) or to a trip (fail_at, succeed).
MsgAddCar(to, car, from, current_tick) ==
    [type |-> "add_car", to |-> to, from |-> from, car |-> car, obstacles |-> <<>>,
     green |-> FALSE, trip |-> car.trip, tick |-> current_tick]

MsgAddObstacles(to, obstacles, from) ==
    [type |-> "add_obstacles", to |-> to, from |-> from, car |-> NoCar,
     obstacles |-> obstacles, green |-> FALSE, trip |-> 0, tick |-> 0]

MsgSignal(to, from, green) ==
    [type |-> "on_signal_changed", to |-> to, from |-> from, car |-> NoCar,
     obstacles |-> <<>>, green |-> green, trip |-> 0, tick |-> 0]

\* trip.fail_at(location, tick): `from` carries the failure location.
MsgFail(trip, location, current_tick) ==
    [type |-> "fail_at", to |-> 0, from |-> location, car |-> NoCar,
     obstacles |-> <<>>, green |-> FALSE, trip |-> trip, tick |-> current_tick]

MsgSucceed(trip, current_tick) ==
    [type |-> "succeed", to |-> 0, from |-> 0, car |-> NoCar,
     obstacles |-> <<>>, green |-> FALSE, trip |-> trip, tick |-> current_tick]

\* What a handler returns: the actor's new state, the messages it sent, and
\* whether it panicked.
Result(state, out) == [state |-> state, out |-> out, panic |-> FALSE]

Panic(state) == [state |-> state, out |-> <<>>, panic |-> TRUE]

----------------------------------------------------------------------------
(* Sequence helpers (CVec operations).                                     *)

InsertAt(s, i, x) == SubSeq(s, 1, i - 1) \o <<x>> \o SubSeq(s, i, Len(s))

RemoveAt(s, i) == SubSeq(s, 1, i - 1) \o SubSeq(s, i + 1, Len(s))

\* iter().position(pred): the first index whose position exceeds p, or 0.
FirstBeyond(s, p) ==
    LET hits == {i \in 1..Len(s) : s[i].position > p}
    IN IF hits = {} THEN 0 ELSE CHOOSE i \in hits : \A j \in hits : i <= j

\* sort_by_key(position): a stable sort, as insertion from the left.
RECURSIVE SortByPosition(_)
SortByPosition(s) ==
    IF Len(s) <= 1 THEN s
    ELSE LET front == SortByPosition(SubSeq(s, 1, Len(s) - 1))
             x == s[Len(s)]
             after == {i \in 1..Len(front) : front[i].position > x.position}
             at == IF after = {} THEN Len(front) + 1
                   ELSE CHOOSE i \in after : \A j \in after : i <= j
         IN InsertAt(front, at, x)

----------------------------------------------------------------------------
(* Lane::add_car                                                           *)

\* routes.get(destination): the table is a sequence of entries
\* [destination, outgoing_idx] in the map's iteration order; 0 when absent.
RouteIndex(routes, destination) ==
    LET hits == {i \in 1..Len(routes) : routes[i].destination = destination}
    IN IF hits = {} THEN 0 ELSE CHOOSE i \in hits : \A j \in hits : i <= j

car_forcibly_spawned(car) == car.position < 0

\* Mutant: the fallback entry is also given to a forcibly spawned car.
maybe_next_hop_interaction_ForcedToo(lane, car) ==
    LET routes == lane.routes
        exact == RouteIndex(routes, car.destination)
        landmark == RouteIndex(routes, landmark_destination(car.destination))
        nth == ((Max(car.velocity, 0) * 1000) % Len(routes)) + 1
    IN IF exact # 0 THEN routes[exact].outgoing_idx % 256
       ELSE IF landmark # 0 THEN routes[landmark].outgoing_idx % 256
       ELSE IF Len(routes) = 0 THEN -1
       ELSE routes[nth].outgoing_idx % 256

\* The next hop: exact destination, else landmark, else (unless forcibly
\* spawned or no routes) values().nth(velocity * 10000 as usize % len).
\* -1 is None.  outgoing_idx is carried as u8.
maybe_next_hop_interaction(lane, car) ==
    LET routes == lane.routes
        exact == RouteIndex(routes, car.destination)
        landmark == RouteIndex(routes, landmark_destination(car.destination))
        nth == ((Max(car.velocity, 0) * 1000) % Len(routes)) + 1
    IN IF exact # 0 THEN routes[exact].outgoing_idx % 256
       ELSE IF landmark # 0 THEN routes[landmark].outgoing_idx % 256
       ELSE IF car_forcibly_spawned(car) \/ Len(routes) = 0 THEN -1
       ELSE routes[nth].outgoing_idx % 256

\* Mutant: the cursor test accepts the threshold itself (>= 2.0).
spawn_possible_AtThreshold(lane, car) ==
    IF car_forcibly_spawned(car) THEN lane.last_spawn_position >= 20 ELSE TRUE

spawn_possible(lane, car) ==
    IF car_forcibly_spawned(car) THEN lane.last_spawn_position > 20 ELSE TRUE

\* Mutant: a spacing of 5.0.
SpawnCursorAfter_Short(cursor) == cursor - 50

\* The cursor after a forced spawn: last_spawn_position -= 6.0.
SpawnCursorAfter(cursor) == cursor - 60

\* routed_car: the next hop set; a forcibly spawned car is moved to the
\* spawn cursor (offset_by(-position), then offset_by(cursor + 6.0) with the
\* cursor already decremented).
routed_car(lane, car, next_hop_interaction) ==
    LET o == IF car_forcibly_spawned(car)
             THEN offset_by(offset_by(AsObstacle(car), -car.position),
                            SpawnCursorAfter(lane.last_spawn_position) + 60)
             ELSE AsObstacle(car)
    IN LaneCar(car.trip, o, car.acceleration, car.destination, next_hop_interaction)

\* Mutant: the car takes the slot of the first car beyond it.
InsertCar_Overwrites(cars, car, routed) ==
    LET next_car_position == FirstBeyond(cars, car.position)
    IN IF next_car_position # 0 THEN [cars EXCEPT ![next_car_position] = routed]
       ELSE Append(cars, routed)

\* The insertion point is found with the position of the car as received
\* (`car`, not `routed_car`): before the first car beyond it, else at the end.
InsertCar(cars, car, routed) ==
    LET next_car_position == FirstBeyond(cars, car.position)
    IN IF next_car_position # 0 THEN InsertAt(cars, next_car_position, routed)
       ELSE Append(cars, routed)

\* Mutant: a car that cannot be routed is dropped without a notification.
add_car_SilentDrop(lane, car, from, current_tick) ==
    LET hop == maybe_next_hop_interaction(lane, car)
    IN IF hop # -1 /\ spawn_possible(lane, car)
       THEN Result([lane EXCEPT
                      !.last_spawn_position =
                          IF car_forcibly_spawned(car) THEN SpawnCursorAfter(@) ELSE @,
                      !.cars = InsertCar(@, car, routed_car(lane, car, hop))],
                   <<>>)
       ELSE Result(lane, <<>>)

add_car(lane, car, from, current_tick) ==
    LET hop == maybe_next_hop_interaction(lane, car)
    IN IF hop # -1 /\ spawn_possible(lane, car)
       THEN Result([lane EXCEPT
                      !.last_spawn_position =
                          IF car_forcibly_spawned(car) THEN SpawnCursorAfter(@) ELSE @,
                      !.cars = InsertCar(@, car, routed_car(lane, car, hop))],
                   <<>>)
       ELSE Result(lane, <<MsgFail(car.trip, lane.id, current_tick)>>)

----------------------------------------------------------------------------
(* Lane::add_obstacles, Lane::on_signal_changed                            *)

Tagged(obstacles, from) ==
    [i \in 1..Len(obstacles) |->
        [position |-> obstacles[i].position, velocity |-> obstacles[i].velocity,
         max_velocity |-> obstacles[i].max_velocity, from |-> from]]

\* Mutant: the stale entries of the source are kept.
RetainOthers_KeepsAll(stored, from) == stored

RetainOthers(stored, from) == SelectSeq(stored, LAMBDA e : e.from # from)

add_obstacles(lane, obstacles, from) ==
    Result([lane EXCEPT !.obstacles = RetainOthers(@, from) \o Tagged(obstacles, from)],
           <<>>)

\* Mutant: the interaction is found by its partner alone, whatever its kind.
FindNext_AnyKind(interactions, from) ==
    LET hits == {i \in 1..Len(interactions) : interactions[i].partner_lane = from}
    IN IF hits = {} THEN 0 ELSE CHOOSE i \in hits : \A j \in hits : i <= j

\* iter_mut().find(kind is Next and partner_lane == from): its index, or 0.
FindNext(interactions, from) ==
    LET hits == {i \in 1..Len(interactions) :
                    interactions[i].kind = "Next" /\ interactions[i].partner_lane = from}
    IN IF hits = {} THEN 0 ELSE CHOOSE i \in hits : \A j \in hits : i <= j

on_signal_changed(lane, from, green) ==
    LET i == FindNext(lane.interactions, from)
    IN IF i # 0
       THEN Result([lane EXCEPT !.interactions[i].green = green], <<>>)
       ELSE Result(lane, <<>>)

----------------------------------------------------------------------------
(* intelligent_acceleration (mod intelligent_acceleration, whose file is   *)
(* not among the sources): the car-following law of the specification,     *)
(* section 4.1, in integers.  Free-flow term a * (1 - (v / v_max)^4),      *)
(* minus a * (desired_gap / actual_gap)^2, the actual gap floored at a     *)
(* small positive value, the result floored at the maximal deceleration.   *)

intelligent_acceleration(car, obstacle, safe_time_headway) ==
    LET v == car.velocity
        v_max == car.max_velocity
        free == IF v_max <= 0 THEN 0
                ELSE (10 * (v_max * v_max * v_max * v_max
                            - Min(v, v_max) * Min(v, v_max) * Min(v, v_max) * Min(v, v_max)))
                     \div (v_max * v_max * v_max * v_max)
        gap == Max(obstacle.position - car.position, 1)
        desired == 20 + Max(0, v * safe_time_headway
                               + (v * (v - obstacle.velocity)) \div 20)
        penalty == IF gap >= 100000 THEN 0 ELSE (10 * desired * desired) \div (gap * gap)
    IN Max(-30, free - penalty)

----------------------------------------------------------------------------
(* obstacles_for_interaction                                               *)

RECURSIVE SkipWhileBefore(_, _)
\* skip_while(position + 2.0 * velocity < start)
SkipWhileBefore(cars, start) ==
    IF cars # <<>> /\ cars[1].position + 2 * cars[1].velocity < start
    THEN SkipWhileBefore(Tail(cars), start)
    ELSE cars

RECURSIVE TakeWhileBefore(_, _)
\* take_while(position < end)
TakeWhileBefore(cars, end) ==
    IF cars # <<>> /\ cars[1].position < end
    THEN <<cars[1]>> \o TakeWhileBefore(Tail(cars), end)
    ELSE <<>>

Reprojected(items, delta) ==
    [i \in 1..Len(items) |->
        Obstacle(items[i].position + delta, items[i].velocity, items[i].max_velocity)]

ObstaclesParallel(interaction, cars) ==
    Reprojected(TakeWhileBefore(SkipWhileBefore(cars, interaction.start), interaction.end),
                -interaction.start + interaction.partner_start)

ObstaclesTransfer(interaction, cars, self_obstacles) ==
    Reprojected(SkipWhileBefore(cars, interaction.start)
                \o SelectSeq(self_obstacles,
                             LAMBDA o : o.from # interaction.partner_lane
                                        /\ o.position + 2 * o.velocity > interaction.start),
                -interaction.start + interaction.partner_start)

in_overlap(interaction, car) ==
    /\ car.position + 2 * car.velocity > interaction.start
    /\ car.position - 20 < interaction.end

\* Mutant: one synthetic obstacle per car in the window.
ObstaclesConflicting_PerCar(interaction, cars) ==
    LET inside == SelectSeq(cars, LAMBDA c : in_overlap(interaction, c))
    IN [i \in 1..Len(inside) |-> Obstacle(interaction.partner_start, 0, 0)]

ObstaclesConflicting(interaction, cars) ==
    IF \E i \in 1..Len(cars) : in_overlap(interaction, cars[i])
    THEN <<Obstacle(interaction.partner_start, 0, 0)>>
    ELSE <<>>

ObstaclesPrevious(interaction, cars, self_obstacles) ==
    LET chain == Reprojected(cars, 0) \o Reprojected(self_obstacles, 0)
        hits == {i \in 1..Len(chain) : chain[i].position >= interaction.start - 20}
    IN IF hits = {} THEN <<>>
       ELSE LET first == CHOOSE i \in hits : \A j \in hits : i <= j
            IN <<offset_by(chain[first], -interaction.start + interaction.partner_start)>>

\* Option<CVec<Obstacle>>: [some, obstacles].
obstacles_for_interaction(interaction, cars, self_obstacles) ==
    IF interaction.kind = "Overlap"
    THEN [some |-> TRUE,
          obstacles |->
              IF interaction.okind = "Parallel" THEN ObstaclesParallel(interaction, cars)
              ELSE IF interaction.okind = "Transfer"
                   THEN ObstaclesTransfer(interaction, cars, self_obstacles)
              ELSE ObstaclesConflicting(interaction, cars)]
    ELSE IF interaction.kind = "Previous"
    THEN [some |-> TRUE, obstacles |-> ObstaclesPrevious(interaction, cars, self_obstacles)]
    ELSE [some |-> FALSE, obstacles |-> <<>>]

----------------------------------------------------------------------------
(* Lane::tick                                                              *)

\* timings[i] of the source (0-based).
TimingAt(timings, i) == timings[(i % Len(timings)) + 1]

\* Mutant: the yellow flags look at the current entry of the cycle, not at
\* the one 100 ticks ahead.
SignalFlags_NoLookahead(lane, current_tick) ==
    IF lane.timings = <<>>
    THEN [lane EXCEPT !.yellow_to_red = TRUE, !.yellow_to_green = TRUE, !.green = TRUE]
    ELSE [lane EXCEPT
            !.yellow_to_red = ~TimingAt(lane.timings, current_tick \div 10),
            !.yellow_to_green = TimingAt(lane.timings, current_tick \div 10),
            !.green = TimingAt(lane.timings, current_tick \div 10)]

\* green / yellow_to_green / yellow_to_red for this tick.
SignalFlags(lane, current_tick) ==
    IF lane.timings = <<>>
    THEN [lane EXCEPT !.yellow_to_red = TRUE, !.yellow_to_green = TRUE, !.green = TRUE]
    ELSE [lane EXCEPT
            !.yellow_to_red = ~TimingAt(lane.timings, (current_tick + 100) \div 10),
            !.yellow_to_green = TimingAt(lane.timings, (current_tick + 100) \div 10),
            !.green = TimingAt(lane.timings, current_tick \div 10)]

do_traffic(id, current_tick) ==
    current_tick % TRAFFIC_LOGIC_THROTTLING = id % TRAFFIC_LOGIC_THROTTLING

\* Mutant: the signal is reported only when it changes.
SignalMessages_OnChangeOnly(lane, old_green, current_tick) ==
    IF old_green # lane.green
    THEN LET previous == SelectSeq(lane.interactions, LAMBDA x : x.kind = "Previous")
         IN [i \in 1..Len(previous) |->
                MsgSignal(previous[i].partner_lane, lane.id, lane.green)]
    ELSE <<>>

\* on_signal_changed(self, green) to the partner of every Previous interaction.
SignalMessages(lane, old_green, current_tick) ==
    IF old_green # lane.green \/ do_traffic(lane.id, current_tick)
    THEN LET previous == SelectSeq(lane.interactions, LAMBDA x : x.kind = "Previous")
         IN [i \in 1..Len(previous) |->
                MsgSignal(previous[i].partner_lane, lane.id, lane.green)]
    ELSE <<>>

\* update_routes (pathfinding, not among the sources) on the routing phase:
\* the routing collaborator replaces the cached table by `refreshed`.
update_routes(lane, current_tick, refreshed) ==
    IF current_tick % PATHFINDING_THROTTLING = lane.id % PATHFINDING_THROTTLING
    THEN [lane EXCEPT !.routes = refreshed]
    ELSE lane

\* interactions[car.next_hop_interaction as usize] is in bounds.
HopInBounds(interactions, car) == car.next_hop_interaction + 1 <= Len(interactions)

HopOf(interactions, car) == interactions[car.next_hop_interaction + 1]

RECURSIVE AdvanceObstacleCursor(_, _, _)
\* The obstacle iterator: from stored obstacle k (sorted by position) on, the
\* first one not before position + 0.1; Len + 1 once the iterator is spent.
AdvanceObstacleCursor(sorted, k, position) ==
    IF k <= Len(sorted) /\ sorted[k].position < position + 1
    THEN AdvanceObstacleCursor(sorted, k + 1, position)
    ELSE k

StopLine_AtStart(interaction) == Obstacle(interaction.start, 0, 0)

\* The stop line of a red Next interaction, as the source places it.
StopLine(interaction) == Obstacle(interaction.start + 20, 0, 0)

\* The acceleration of car c, given the obstacle cursor k after its advance.
CarAcceleration(cars, sorted, interactions, c, k) ==
    LET car == cars[c]
        next_obstacle == IF c + 1 <= Len(cars) THEN AsObstacle(cars[c + 1]) ELSE far_ahead
        next_car_acceleration == intelligent_acceleration(car, next_obstacle, 2)
        next_obstacle_acceleration ==
            IF k <= Len(sorted) THEN intelligent_acceleration(car, sorted[k], 4)
            ELSE INFINITY
        following == Min(next_car_acceleration, next_obstacle_acceleration)
        hop == HopOf(interactions, car)
    IN IF hop.kind = "Next" /\ ~hop.green
       THEN Min(following, intelligent_acceleration(car, StopLine(hop), 2))
       ELSE following

RECURSIVE TrafficLoop(_, _, _, _, _)
\* for c in 0..cars.len(): the cars with their new accelerations.
TrafficLoop(cars, sorted, interactions, c, k) ==
    IF c > Len(cars) THEN cars
    ELSE LET k2 == AdvanceObstacleCursor(sorted, k, cars[c].position)
             acc == CarAcceleration(cars, sorted, interactions, c, k2)
         IN TrafficLoop([cars EXCEPT ![c].acceleration = acc],
                        sorted, interactions, c + 1, k2)

\* The traffic phase indexes interactions with every car's next hop.
TrafficPanics(lane) ==
    \E c \in 1..Len(lane.cars) : ~HopInBounds(lane.interactions, lane.cars[c])

TrafficPhase(lane) ==
    LET sorted == SortByPosition(lane.obstacles)
    IN [lane EXCEPT !.obstacles = sorted,
                    !.cars = TrafficLoop(lane.cars, sorted, lane.interactions, 1, 1)]

\* Euler step of one car: position by the old velocity, velocity clamped to
\* [0, max_velocity].
IntegrateCar(car, dt) ==
    [car EXCEPT !.position = car.position + dt * car.velocity,
                !.velocity = Max(Min(car.velocity + dt * car.acceleration,
                                     car.max_velocity), 0)]

IntegrateObstacle(o, dt) == [o EXCEPT !.position = o.position + dt * o.velocity]

RECURSIVE ClampFrom(_, _)
\* for i in (0..len - 1).rev(): cars[i].position = min(itself, cars[i + 1].position)
ClampFrom(cars, i) ==
    IF i < 1 THEN cars
    ELSE ClampFrom([cars EXCEPT ![i].position =
                        Min(cars[i].position, cars[i + 1].position)], i - 1)

\* Mutant: the tail-to-head clamp is left out.
NonCrossingClamp_Skipped(cars) == cars

NonCrossingClamp(cars) == IF Len(cars) > 1 THEN ClampFrom(cars, Len(cars) - 1) ELSE cars

Integrate(lane, dt) ==
    [lane EXCEPT
        !.cars = NonCrossingClamp([i \in 1..Len(lane.cars) |-> IntegrateCar(lane.cars[i], dt)]),
        !.obstacles = [i \in 1..Len(lane.obstacles) |-> IntegrateObstacle(lane.obstacles[i], dt)]]

\* A car has passed its next-hop interaction's start (with the 300-unit gate
\* of a Transfer overlap).
ShouldSwitch(interactions, car) ==
    LET interaction == HopOf(interactions, car)
    IN IF interaction.kind = "Overlap" /\ interaction.okind = "Transfer"
       THEN car.position > interaction.start /\ car.position > interaction.end - 3000
       ELSE car.position > interaction.start

\* Mutant: the scan runs from the first car of the list.
maybe_switch_car_Rearmost(lane) ==
    LET stops == {i \in 1..Len(lane.cars) :
                    \/ ~HopInBounds(lane.interactions, lane.cars[i])
                    \/ ShouldSwitch(lane.interactions, lane.cars[i])}
    IN IF stops = {} THEN 0
       ELSE LET i == CHOOSE x \in stops : \A y \in stops : x <= y
            IN IF HopInBounds(lane.interactions, lane.cars[i]) THEN i ELSE -1

\* iter().enumerate().rev().filter_map(..).next(): scanning from the last
\* car, the first that switches; the scan indexes interactions on its way.
\* 0: none; -1: the scan went out of bounds.
maybe_switch_car(lane) ==
    LET stops == {i \in 1..Len(lane.cars) :
                    \/ ~HopInBounds(lane.interactions, lane.cars[i])
                    \/ ShouldSwitch(lane.interactions, lane.cars[i])}
    IN IF stops = {} THEN 0
       ELSE LET i == CHOOSE x \in stops : \A y \in stops : y <= x
            IN IF HopInBounds(lane.interactions, lane.cars[i]) THEN i ELSE -1

\* Mutant: the car is forwarded without being repositioned.
SwitchMessage_Unshifted(lane, car, current_tick) ==
    MsgAddCar(HopOf(lane.interactions, car).partner_lane, car, lane.id, current_tick)

\* The message for the car removed at the hand-off: succeed when this lane
\* is its destination node, else add_car on the partner, repositioned.
SwitchMessage(lane, car, current_tick) ==
    LET interaction == HopOf(lane.interactions, car)
        moved == [car EXCEPT !.position =
                     car.position + (interaction.partner_start - interaction.start)]
    IN IF lane.id = car.destination.node
       THEN MsgSucceed(car.trip, current_tick)
       ELSE MsgAddCar(interaction.partner_lane, moved, lane.id, current_tick)

\* Mutant: the loop body runs once, handing off at most one car per tick.
SwitchLoop_Once(lane, out, current_tick) ==
    LET i == maybe_switch_car(lane)
    IN IF i = 0 THEN Result(lane, out)
       ELSE IF i = -1 THEN Panic(lane)
       ELSE Result([lane EXCEPT !.cars = RemoveAt(@, i)],
                   Append(out, SwitchMessage(lane, lane.cars[i], current_tick)))

RECURSIVE SwitchLoop(_, _, _)
SwitchLoop(lane, out, current_tick) ==
    LET i == maybe_switch_car(lane)
    IN IF i = 0 THEN Result(lane, out)
       ELSE IF i = -1 THEN Panic(lane)
       ELSE SwitchLoop([lane EXCEPT !.cars = RemoveAt(@, i)],
                       Append(out, SwitchMessage(lane, lane.cars[i], current_tick)),
                       current_tick)

\* Mutant: publication on the partner's own phase.
PublishesTo_PartnersPhase(interaction, current_tick) ==
    current_tick % TRAFFIC_LOGIC_THROTTLING
        = interaction.partner_lane % TRAFFIC_LOGIC_THROTTLING

PublishesTo(interaction, current_tick) ==
    (current_tick + 1) % TRAFFIC_LOGIC_THROTTLING
        = interaction.partner_lane % TRAFFIC_LOGIC_THROTTLING

RECURSIVE PublishFrom(_, _, _)
\* for interaction in interactions: add_obstacles to the partner on the
\* partner's phase, when the resolver returns a set.
PublishFrom(lane, i, current_tick) ==
    IF i > Len(lane.interactions) THEN <<>>
    ELSE LET interaction == lane.interactions[i]
             maybe_obstacles ==
                 obstacles_for_interaction(interaction, lane.cars, lane.obstacles)
             rest == PublishFrom(lane, i + 1, current_tick)
         IN IF PublishesTo(interaction, current_tick) /\ maybe_obstacles.some
            THEN <<MsgAddObstacles(interaction.partner_lane, maybe_obstacles.obstacles,
                                   lane.id)>> \o rest
            ELSE rest

\* The lane right after the integration and the clamp of a tick.
LaneMoved(lane0, raw_dt, current_tick, refreshed) ==
    LET routed == update_routes(SignalFlags(lane0, current_tick), current_tick, refreshed)
    IN Integrate(IF do_traffic(lane0.id, current_tick) THEN TrafficPhase(routed) ELSE routed,
                 raw_dt \div MICROTRAFFIC_UNREALISTIC_SLOWDOWN)

\* Lane::tick(dt, current_tick); `refreshed` is what update_routes would cache.
tick(lane0, raw_dt, current_tick, refreshed) ==
    LET signalled == SignalFlags(lane0, current_tick)
        signals == SignalMessages(signalled, lane0.green, current_tick)
        routed == update_routes(signalled, current_tick, refreshed)
        traffic == do_traffic(lane0.id, current_tick)
    IN IF traffic /\ TrafficPanics(routed) THEN Panic(routed)
       ELSE LET moved == LaneMoved(lane0, raw_dt, current_tick, refreshed)
                switched == SwitchLoop(moved, signals, current_tick)
            IN IF switched.panic THEN switched
               ELSE Result(switched.state,
                           switched.out \o PublishFrom(switched.state, 1, current_tick))

----------------------------------------------------------------------------
(* TransferLane                                                            *)

\* connectivity.left / connectivity.right: Option<(LaneID, f32)>.
Neighbour(id, start) == [some |-> TRUE, id |-> id, start |-> start]

NoNeighbour == [some |-> FALSE, id |-> 0, start |-> 0]

TransferringLaneCar(car, transfer_position, transfer_velocity, transfer_acceleration, cancelling) ==
    [trip |-> car.trip, position |-> car.position, velocity |-> car.velocity,
     max_velocity |-> car.max_velocity, acceleration |-> car.acceleration,
     destination |-> car.destination, next_hop_interaction |-> car.next_hop_interaction,
     transfer_position |-> transfer_position, transfer_velocity |-> transfer_velocity,
     transfer_acceleration |-> transfer_acceleration, cancelling |-> cancelling]

\* as_lane_car of a transferring car.
AsLaneCar(car) ==
    LaneCar(car.trip, AsObstacle(car), car.acceleration, car.destination,
            car.next_hop_interaction)

\* TransferLane::interaction_to_self_offset and self_to_interaction_offset
\* (lane module, not among the sources): the offset between a neighbour's
\* interaction coordinates and the transfer lane's own, here one constant
\* per side, kept in the lane's connectivity.
interaction_to_self_offset(tlane, distance_on_interaction, came_from_left) ==
    IF came_from_left THEN tlane.left_offset ELSE tlane.right_offset

self_to_interaction_offset(tlane, distance_on_self, going_to_left) ==
    IF going_to_left THEN -tlane.left_offset ELSE -tlane.right_offset

\* Mutant: the sides are mirrored, a car from the left starts at +1.
transfer_add_car_Mirrored(tlane, car, maybe_from) ==
    IF maybe_from = 0 \/ ~tlane.left.some THEN Panic(tlane)
    ELSE LET from_left == maybe_from = tlane.left.id
             side_multiplier == IF from_left THEN 1 ELSE -1
             offset == interaction_to_self_offset(tlane, car.position, from_left)
             entered == TransferringLaneCar([car EXCEPT !.position = car.position + offset],
                                            10 * side_multiplier, 0,
                                            3 * (-side_multiplier), FALSE)
         IN Result([tlane EXCEPT !.cars = SortByPosition(Append(@, entered))], <<>>)

\* TransferLane::add_car: expect() panics without a source or a left lane.
transfer_add_car(tlane, car, maybe_from) ==
    IF maybe_from = 0 \/ ~tlane.left.some THEN Panic(tlane)
    ELSE LET from_left == maybe_from = tlane.left.id
             side_multiplier == IF from_left THEN -1 ELSE 1
             offset == interaction_to_self_offset(tlane, car.position, from_left)
             entered == TransferringLaneCar([car EXCEPT !.position = car.position + offset],
                                            10 * side_multiplier, 0,
                                            3 * (-side_multiplier), FALSE)
         IN Result([tlane EXCEPT !.cars = SortByPosition(Append(@, entered))], <<>>)

\* Mutant: the set is stored whether or not both neighbours are known.
transfer_add_obstacles_Unconnected(tlane, obstacles, from) ==
    IF tlane.left.id = from
    THEN Result([tlane EXCEPT !.left_obstacles =
                   [i \in 1..Len(obstacles) |->
                       offset_by(obstacles[i],
                                 interaction_to_self_offset(tlane, obstacles[i].position,
                                                            TRUE))]], <<>>)
    ELSE Result([tlane EXCEPT !.right_obstacles =
                   [i \in 1..Len(obstacles) |->
                       offset_by(obstacles[i],
                                 interaction_to_self_offset(tlane, obstacles[i].position,
                                                            FALSE))]], <<>>)

\* TransferLane::add_obstacles: the left or the right slot, once both
\* neighbours are known.
transfer_add_obstacles(tlane, obstacles, from) ==
    IF tlane.left.some /\ tlane.right.some
    THEN IF tlane.left.id = from
         THEN Result([tlane EXCEPT !.left_obstacles =
                        [i \in 1..Len(obstacles) |->
                            offset_by(obstacles[i],
                                      interaction_to_self_offset(tlane, obstacles[i].position,
                                                                 TRUE))]], <<>>)
         ELSE Result([tlane EXCEPT !.right_obstacles =
                        [i \in 1..Len(obstacles) |->
                            offset_by(obstacles[i],
                                      interaction_to_self_offset(tlane, obstacles[i].position,
                                                                 FALSE))]], <<>>)
    ELSE Result(tlane, <<>>)

\* iter().find(pred): the first element of s among the indices `hits` that
\* satisfy the predicate, as a sequence of length 0 or 1.
FindFirst(s, hits) ==
    IF hits = {} THEN <<>>
    ELSE <<s[CHOOSE i \in hits : \A j \in hits : i <= j]>>

\* The obstacles of `obstacles` that are less than 5.0 behind the car, or ahead.
NotFarBehind(obstacles, car) ==
    {i \in 1..Len(obstacles) : obstacles[i].position + 50 > car.position}

\* The obstacles a transferring car considers: the next car, the next left
\* and right obstacle it is exposed to, and far_ahead.
ConsideredObstacles(tlane, car) ==
    LET next_car == FindFirst(tlane.cars,
                              {i \in 1..Len(tlane.cars) :
                                  tlane.cars[i].position > car.position})
        left == IF car.transfer_position < 3 \/ car.transfer_acceleration < 0
                THEN FindFirst(tlane.left_obstacles,
                               NotFarBehind(tlane.left_obstacles, car))
                ELSE <<>>
        right == IF car.transfer_position > -3 \/ car.transfer_acceleration > 0
                 THEN FindFirst(tlane.right_obstacles,
                                NotFarBehind(tlane.right_obstacles, car))
                 ELSE <<>>
    IN Reprojected(next_car, 0) \o left \o right \o <<far_ahead>>

\* An obstacle less than 0.1 ahead of the car.
Dangerous(car, considered) ==
    \E i \in 1..Len(considered) : considered[i].position < car.position + 1

RECURSIVE MinAcceleration(_, _, _)
\* min over the considered obstacles that are not dangerous.
MinAcceleration(car, considered, i) ==
    IF i > Len(considered) THEN INFINITY
    ELSE IF considered[i].position < car.position + 1
         THEN MinAcceleration(car, considered, i + 1)
         ELSE Min(intelligent_acceleration(car, considered[i], 1),
                  MinAcceleration(car, considered, i + 1))

\* Mutant: every dangerous traffic phase negates the lateral acceleration.
TransferCarTraffic_Renegates(tlane, car) ==
    LET considered == ConsideredObstacles(tlane, car)
        next_obstacle_acceleration == MinAcceleration(car, considered, 1)
        transfer_before_end_velocity == ((tlane.length + 10 - car.position) * 10) \div 15
        transfer_before_end_acceleration == transfer_before_end_velocity - car.velocity
        accelerated == [car EXCEPT !.acceleration =
                           Min(next_obstacle_acceleration, transfer_before_end_acceleration)]
    IN IF Dangerous(car, considered)
       THEN [accelerated EXCEPT !.transfer_acceleration = -car.transfer_acceleration,
                                !.cancelling = TRUE]
       ELSE accelerated

\* The traffic phase of one car: its acceleration, and the cancellation of
\* its transfer on danger.
TransferCarTraffic(tlane, car) ==
    LET considered == ConsideredObstacles(tlane, car)
        next_obstacle_acceleration == MinAcceleration(car, considered, 1)
        transfer_before_end_velocity == ((tlane.length + 10 - car.position) * 10) \div 15
        transfer_before_end_acceleration == transfer_before_end_velocity - car.velocity
        accelerated == [car EXCEPT !.acceleration =
                           Min(next_obstacle_acceleration, transfer_before_end_acceleration)]
    IN IF Dangerous(car, considered) /\ ~car.cancelling
       THEN [accelerated EXCEPT !.transfer_acceleration = -car.transfer_acceleration,
                                !.cancelling = TRUE]
       ELSE accelerated

TransferTrafficPhase(tlane) ==
    LET sorted == [tlane EXCEPT !.left_obstacles = SortByPosition(@),
                                !.right_obstacles = SortByPosition(@)]
    IN [sorted EXCEPT !.cars = [c \in 1..Len(sorted.cars) |->
                                   TransferCarTraffic(sorted, sorted.cars[c])]]

\* Euler step of a transferring car; the lateral velocity is capped at a
\* twelfth of the (new) velocity.
IntegrateTransferringCar(car, dt) ==
    LET velocity == Max(Min(car.velocity + dt * car.acceleration, car.max_velocity), 0)
        transfer_velocity == car.transfer_velocity + dt * car.transfer_acceleration
    IN [car EXCEPT !.position = car.position + dt * car.velocity,
                   !.velocity = velocity,
                   !.transfer_position = car.transfer_position + dt * car.transfer_velocity,
                   !.transfer_velocity =
                       IF 12 * Abs(transfer_velocity) > velocity
                       THEN (velocity \div 12) * Signum(transfer_velocity)
                       ELSE transfer_velocity]

RECURSIVE SwapFrom(_, _)
\* for i in (0..len - 1).rev(): swap cars[i] and cars[i + 1] when out of order.
SwapFrom(cars, i) ==
    IF i < 1 THEN cars
    ELSE IF cars[i].position > cars[i + 1].position
         THEN SwapFrom([cars EXCEPT ![i] = cars[i + 1], ![i + 1] = cars[i]], i - 1)
         ELSE SwapFrom(cars, i - 1)

SwapPass(cars) == IF Len(cars) > 1 THEN SwapFrom(cars, Len(cars) - 1) ELSE cars

TransferIntegrate(tlane, dt) ==
    [tlane EXCEPT
        !.cars = SwapPass([i \in 1..Len(tlane.cars) |->
                              IntegrateTransferringCar(tlane.cars[i], dt)]),
        !.left_obstacles = [i \in 1..Len(tlane.left_obstacles) |->
                               IntegrateObstacle(tlane.left_obstacles[i], dt)],
        !.right_obstacles = [i \in 1..Len(tlane.right_obstacles) |->
                                IntegrateObstacle(tlane.right_obstacles[i], dt)]]

\* Mutant: a car leaves to the right only past the end of the lane.
ExitsRight_EndOnly(tlane, car) ==
    car.position > tlane.length /\ car.transfer_acceleration > 0

ExitsRight(tlane, car) ==
    \/ car.transfer_position > 10
    \/ (car.position > tlane.length /\ car.transfer_acceleration > 0)

ExitsLeft(tlane, car) ==
    \/ car.transfer_position < -10
    \/ (car.position > tlane.length /\ car.transfer_acceleration <= 0)

\* The message for a car leaving towards `side`: succeed when that
\* neighbour is its destination node, else add_car on it, repositioned.
ExitMessage(tlane, car, side, going_to_left, current_tick) ==
    IF car.destination.node = side.id
    THEN MsgSucceed(car.trip, current_tick)
    ELSE MsgAddCar(side.id,
                   [AsLaneCar(car) EXCEPT !.position =
                       car.position + (side.start
                           + self_to_interaction_offset(tlane, car.position, going_to_left))],
                   tlane.id, current_tick)

RECURSIVE ExitLoop(_, _, _, _)
\* The loop over the cars with index i: a leaving car is removed and i
\* stays, else i advances.
ExitLoop(tlane, i, out, current_tick) ==
    IF i > Len(tlane.cars) THEN Result(tlane, out)
    ELSE LET car == tlane.cars[i]
         IN IF ExitsRight(tlane, car)
            THEN ExitLoop([tlane EXCEPT !.cars = RemoveAt(@, i)], i,
                          Append(out, ExitMessage(tlane, car, tlane.right, FALSE,
                                                  current_tick)),
                          current_tick)
            ELSE IF ExitsLeft(tlane, car)
            THEN ExitLoop([tlane EXCEPT !.cars = RemoveAt(@, i)], i,
                          Append(out, ExitMessage(tlane, car, tlane.left, TRUE,
                                                  current_tick)),
                          current_tick)
            ELSE ExitLoop(tlane, i + 1, out, current_tick)

\* The cars published to the left (right) neighbour: those still biased
\* towards that side.
TransferObstaclesFor(tlane, side, to_left) ==
    LET biased == SelectSeq(tlane.cars,
                            LAMBDA car :
                                IF to_left
                                THEN car.transfer_position < 3 \/ car.transfer_acceleration < 0
                                ELSE car.transfer_position > -3 \/ car.transfer_acceleration > 0)
    IN [i \in 1..Len(biased) |->
           offset_by(AsObstacle(biased[i]),
                     side.start + self_to_interaction_offset(tlane, biased[i].position, to_left))]

TransferPublish(tlane, current_tick) ==
    LET phase == (current_tick + 1) % TRAFFIC_LOGIC_THROTTLING
    IN (IF phase = tlane.left.id % TRAFFIC_LOGIC_THROTTLING
        THEN <<MsgAddObstacles(tlane.left.id, TransferObstaclesFor(tlane, tlane.left, TRUE),
                               tlane.id)>>
        ELSE <<>>)
       \o
       (IF phase = tlane.right.id % TRAFFIC_LOGIC_THROTTLING
        THEN <<MsgAddObstacles(tlane.right.id, TransferObstaclesFor(tlane, tlane.right, FALSE),
                               tlane.id)>>
        ELSE <<>>)

\* The cars right after the integration and the swap pass of a tick.
TransferMoved(tlane, raw_dt, current_tick) ==
    TransferIntegrate(IF do_traffic(tlane.id, current_tick)
                      THEN TransferTrafficPhase(tlane) ELSE tlane,
                      raw_dt \div MICROTRAFFIC_UNREALISTIC_SLOWDOWN)

\* TransferLane::tick(dt, current_tick)
transfer_tick(tlane, raw_dt, current_tick) ==
    LET moved == TransferMoved(tlane, raw_dt, current_tick)
    IN IF moved.left.some /\ moved.right.some
       THEN LET left == ExitLoop(moved, 1, <<>>, current_tick)
            IN Result(left.state, left.out \o TransferPublish(left.state, current_tick))
       ELSE Result(moved, <<>>)

----------------------------------------------------------------------------
(* Bounds of the model.                                                    *)

MaxTrips == 3       \* add_car calls (fresh trips) per run
MaxTicks == 2       \* ticks per run of the single-lane specification
MaxFrameTrips == 1  \* add_car calls per run of SpecFrame
MaxTransferTrips == 2  \* add_car calls per run of SpecTransfer
MaxTransferTicks == 6  \* ticks per run of SpecTransfer
MaxOvertakeTrips == 3  \* add_car calls per run of SpecOvertake
MaxOvertakeTicks == 2  \* ticks per run of SpecOvertake
MaxHandOffTrips == 3  \* cars entering the lane per run of SpecHandOff
MaxHandOffTicks == 2  \* ticks of the lane per run of SpecHandOff
MaxSignalTicks == 4  \* ticks of the simulation per run of SpecSignal
MaxPublishTrips == 2  \* cars entering the lane per run of SpecPublish
MaxPublishTicks == 3  \* ticks of the lane per run of SpecPublish
MaxStaleTrips == 2  \* cars entering the lane per run of SpecStale
MaxStaleTicks == 2  \* ticks of the lane per run of SpecStale
MaxParallelTrips == 3  \* cars entering the lane per run of SpecParallel
MaxParallelTicks == 2  \* ticks of the lane per run of SpecParallel
MaxCancelTrips == 2  \* cars entering the transfer lane per run of SpecCancel
MaxCancelTicks == 32  \* ticks per run of SpecCancel: the traffic phases 9 and 39
MaxConnectTrips == 1  \* cars entering the transfer lane per run of SpecConnect
MaxConnectTicks == 2  \* ticks per run of SpecConnect
MaxNetTrips == 2  \* cars entering the network per run of SpecNet
MaxNetTicks == 4  \* ticks of the simulation per run of SpecNet

----------------------------------------------------------------------------
(* The single-lane scenario: Lane 9 with a Next interaction to lane 12 at   *)
(* its end, a Conflicting overlap with lane 10 and a Previous interaction   *)
(* to lane 11.  The lane is built while the simulation stands at tick 8, so *)
(* that its traffic and routing phase (tick 9), its publications (ticks 9   *)
(* and 10) and a change of its signal (tick 10) fall into the run.          *)

Self == [id |-> 9, next |-> 12, conflicting |-> 10, previous |-> 11, stranger |-> 13,
         last_spawn_position |-> 140, built_at |-> 8]

LaneInteractions ==
    << Interaction(Self.next, 150, 0, "Next", FALSE, 0, "None"),
       Interaction(Self.conflicting, 60, 40, "Overlap", FALSE, 100, "Conflicting"),
       Interaction(Self.previous, 0, 90, "Previous", FALSE, 0, "None") >>

Route(destination, outgoing_idx) ==
    [destination |-> destination, outgoing_idx |-> outgoing_idx]

\* Destinations: beyond the Next interaction (routed exactly), a node of the
\* same landmark (routed by its landmark only), this lane itself, and a
\* place no table knows.
DestNext == Location(12, 12)
DestLandmark == Location(12, 14)
DestSelf == Location(9, 9)
DestUnknown == Location(20, 21)

Destinations == {DestNext, DestLandmark, DestSelf, DestUnknown}

\* Route tables the routing collaborator may have cached: none yet, or all.
RouteTables == { <<>>, <<Route(DestNext, 0), Route(DestSelf, 0)>> }

TimingPlans == { <<FALSE, TRUE>> }

\* Microtraffic::new(timings) in a freshly built lane.
NewLane(id, interactions, routes, timings, last_spawn_position) ==
    [id |-> id, cars |-> <<>>, obstacles |-> <<>>, timings |-> timings,
     green |-> FALSE, yellow_to_green |-> FALSE, yellow_to_red |-> FALSE,
     interactions |-> interactions, routes |-> routes,
     last_spawn_position |-> last_spawn_position]

\* Cars the environment hands to add_car: forcibly spawned (position < 0) or
\* handed off at a position of the lane, standing or moving, with each kind
\* of destination.
CarInputs(trip) ==
    { LaneCar(trip, Obstacle(-10, 0, 50), 0, DestNext, 0),
      LaneCar(trip, Obstacle(-10, 30, 50), 0, DestUnknown, 0),
      LaneCar(trip, Obstacle(0, 30, 50), 0, DestLandmark, 0),
      LaneCar(trip, Obstacle(50, 0, 50), 0, DestUnknown, 0),
      LaneCar(trip, Obstacle(50, 30, 50), 0, DestSelf, 0) }

\* Obstacle sets a neighbour publishes to add_obstacles.
ObstacleInputs == { <<>>, <<Obstacle(70, 0, 0)>> }

RawDts == {20}

NoCall == [op |-> "none", car |-> NoCar, from |-> 0, obstacles |-> <<>>,
           green |-> FALSE, dt |-> 0, out |-> <<>>]

Call(op, car, from, obstacles, green, out) ==
    [op |-> op, car |-> car, from |-> from, obstacles |-> obstacles,
     green |-> green, dt |-> 0, out |-> out]

\* The transfer lane of the scenario, between a left and a right lane.
Transfer == [id |-> 39, left |-> 40, right |-> 41, length |-> 400,
             left_start |-> 20, right_start |-> 30,
             left_offset |-> -20, right_offset |-> -10]

NewTransferLane(id, left, right, length, left_offset, right_offset) ==
    [id |-> id, cars |-> <<>>, left_obstacles |-> <<>>, right_obstacles |-> <<>>,
     left |-> left, right |-> right, length |-> length,
     left_offset |-> left_offset, right_offset |-> right_offset]

IdleTransfer ==
    NewTransferLane(Transfer.id, Neighbour(Transfer.left, Transfer.left_start),
                    Neighbour(Transfer.right, Transfer.right_start), Transfer.length,
                    Transfer.left_offset, Transfer.right_offset)

Init ==
    /\ \E routes \in RouteTables, timings \in TimingPlans :
          lanes = [l \in {Self.id} |->
                      NewLane(Self.id, LaneInteractions, routes, timings,
                              Self.last_spawn_position)]
    /\ transfer = IdleTransfer
    /\ queue = <<>>
    /\ now = Self.built_at
    /\ ticked = {}
    /\ last = NoCall
    /\ spawned = 0
    /\ nextTrip = 1
    /\ panicked = FALSE

\* The car's destination, or its landmark, is in the lane's route table.
HasRoute(lane, car) ==
    \/ RouteIndex(lane.routes, car.destination) # 0
    \/ RouteIndex(lane.routes, landmark_destination(car.destination)) # 0

\* A handler's result takes effect: the actor's state, or the panic.
Apply(l, r) ==
    /\ lanes' = [lanes EXCEPT ![l] = r.state]
    /\ panicked' = r.panic

\* add_car is called with a car of a fresh trip.
AddCarCall(max_trips) ==
    /\ ~panicked
    /\ nextTrip <= max_trips
    /\ \E car \in CarInputs(nextTrip) :
          LET r == add_car(lanes[Self.id], car, Self.previous, now)
          IN /\ Apply(Self.id, r)
             /\ last' = Call("add_car", car, Self.previous, <<>>, FALSE, r.out)
    /\ nextTrip' = nextTrip + 1
    /\ spawned' = IF spawned >= 0 /\ car_forcibly_spawned(last'.car)
                     /\ HasRoute(lanes[Self.id], last'.car)
                  THEN spawned + 1 ELSE -1
    /\ UNCHANGED <<transfer, queue, now, ticked>>

AddObstaclesCall(inputs, sources) ==
    /\ ~panicked
    /\ \E obstacles \in inputs, from \in sources :
          LET r == add_obstacles(lanes[Self.id], obstacles, from)
          IN /\ Apply(Self.id, r)
             /\ last' = Call("add_obstacles", NoCar, from, obstacles, FALSE, r.out)
    /\ spawned' = -1
    /\ UNCHANGED <<transfer, queue, now, ticked, nextTrip>>

SignalCall(sources) ==
    /\ ~panicked
    /\ \E from \in sources, green \in BOOLEAN :
          LET r == on_signal_changed(lanes[Self.id], from, green)
          IN /\ Apply(Self.id, r)
             /\ last' = Call("on_signal_changed", NoCar, from, <<>>, green, r.out)
    /\ spawned' = -1
    /\ UNCHANGED <<transfer, queue, now, ticked, nextTrip>>

TickCall(max_ticks) ==
    /\ ~panicked
    /\ now < Self.built_at + max_ticks
    /\ \E raw_dt \in RawDts, refreshed \in RouteTables :
          LET r == tick(lanes[Self.id], raw_dt, now, refreshed)
          IN /\ Apply(Self.id, r)
             /\ last' = [Call("tick", NoCar, 0, <<>>, FALSE, r.out) EXCEPT !.dt = raw_dt]
    /\ now' = now + 1
    /\ spawned' = -1
    /\ UNCHANGED <<transfer, queue, ticked, nextTrip>>

EnvAddCar == AddCarCall(MaxTrips)

EnvAddObstacles == AddObstaclesCall(ObstacleInputs, {Self.previous})

EnvSignal == SignalCall({Self.next})

EnvTick == TickCall(MaxTicks)

Next == EnvAddCar \/ EnvAddObstacles \/ EnvSignal \/ EnvTick

Spec == Init /\ [][Next]_vars

----------------------------------------------------------------------------
(* The same lane with the obstacle and signal handlers called with every   *)
(* kind of source: its Conflicting and Previous partners publish obstacle  *)
(* sets, and its Next partner, its Conflicting partner and a lane it has   *)
(* no interaction with report signal changes.                              *)

FrameObstacleInputs ==
    { <<>>, <<Obstacle(70, 0, 0)>>, <<Obstacle(90, 10, 20), Obstacle(30, 0, 10)>> }

FrameAddCar == AddCarCall(MaxFrameTrips)

FrameAddObstacles == AddObstaclesCall(FrameObstacleInputs, {Self.conflicting, Self.previous})

FrameSignal == SignalCall({Self.next, Self.conflicting, Self.stranger})

FrameTick == TickCall(MaxTicks)

NextFrame == FrameAddCar \/ FrameAddObstacles \/ FrameSignal \/ FrameTick

SpecFrame == Init /\ [][NextFrame]_vars

----------------------------------------------------------------------------
(* Properties of the single lane (specification Spec).                     *)

TheLane == lanes[Self.id]

Sorted(cars) == \A i \in 1..Len(cars) - 1 : cars[i].position <= cars[i + 1].position

TripsOf(cars) == {cars[i].trip : i \in 1..Len(cars)}

\* `after` is `before` with one car of trip `trip` inserted, once.
InsertedOnce(before, after, trip) ==
    /\ trip \notin TripsOf(before)
    /\ \E k \in 1..Len(after) : after[k].trip = trip /\ RemoveAt(after, k) = before

\* C1: at the end of every tick of the lane, whatever add_car (hand-off or
\* forced spawn), add_obstacles, on_signal_changed and tick calls came
\* before, the car list is in ascending order of position.
C1_SortedAfterTick ==
    (last.op = "tick" /\ ~panicked) => Sorted(TheLane.cars)

\* C1 witness: a tick ended with a car that was added later standing clamped
\* at the position of the car listed after it.
C1_Witness ==
    /\ last.op = "tick"
    /\ \E i \in 1..Len(TheLane.cars) - 1 :
          /\ TheLane.cars[i].position = TheLane.cars[i + 1].position
          /\ TheLane.cars[i].velocity > TheLane.cars[i + 1].velocity

\* C2 (as claimed): a car that is on the lane before and after a tick is,
\* after the tick, at a position not less than before it.
C2_PositionNeverDecreases ==
    [][last'.op = "tick" =>
          \A i \in 1..Len(TheLane.cars), j \in 1..Len(TheLane'.cars) :
              TheLane.cars[i].trip = TheLane'.cars[j].trip
                  => TheLane'.cars[j].position >= TheLane.cars[i].position]_vars

\* The car's destination has no exact and no landmark route, and no fallback
\* applies (forced spawn, or an empty table).
NoRouteAtAll(lane, car) ==
    /\ ~HasRoute(lane, car)
    /\ (car.position < 0 \/ lane.routes = <<>>)

\* C3: every add_car call either inserts the car exactly once and reports no
\* failure, or leaves the car list unchanged and sends exactly one fail
\* notification for the car's trip, located at this lane; a car without
\* exact, landmark or fallback route is dropped and failed; the lane does
\* not panic.
C3_AddCarOneOutcome ==
    [][last'.op = "add_car" =>
          LET car == last'.car
              inserted == /\ InsertedOnce(TheLane.cars, TheLane'.cars, car.trip)
                          /\ last'.out = <<>>
              failed == /\ TheLane'.cars = TheLane.cars
                        /\ last'.out = <<MsgFail(car.trip, Self.id, now)>>
          IN /\ inserted \/ failed
             /\ NoRouteAtAll(TheLane, car) => failed
             /\ ~panicked']_vars

\* C3 witness: an add_car call failed a car on a lane that holds cars
\* inserted by earlier calls.
C3_Witness ==
    /\ last.op = "add_car"
    /\ Len(last.out) = 1
    /\ last.out[1].type = "fail_at"
    /\ Len(TheLane.cars) >= 1

\* C4: add_car of a forcibly spawned car whose destination has a route: with
\* last_spawn_position <= 2.0 the car is not inserted and the car list and
\* the cursor are unchanged; with last_spawn_position > 2.0 the car is
\* inserted at the cursor and the cursor is decremented by 6.0.
C4_ForcedSpawnCursor ==
    [][(last'.op = "add_car" /\ last'.car.position < 0 /\ HasRoute(TheLane, last'.car)) =>
          IF TheLane.last_spawn_position <= 20
          THEN /\ TheLane'.cars = TheLane.cars
               /\ TheLane'.last_spawn_position = TheLane.last_spawn_position
          ELSE /\ InsertedOnce(TheLane.cars, TheLane'.cars, last'.car.trip)
               /\ \E k \in 1..Len(TheLane'.cars) :
                     /\ TheLane'.cars[k].trip = last'.car.trip
                     /\ TheLane'.cars[k].position = TheLane.last_spawn_position
               /\ TheLane'.last_spawn_position = TheLane.last_spawn_position - 60]_vars

\* C4 witness: a routed forced spawn was rejected at a cursor of at most
\* 2.0, after earlier spawns were accepted.
C4_Witness ==
    /\ last.op = "add_car"
    /\ last.car.position < 0
    /\ HasRoute(TheLane, last.car)
    /\ last.out # <<>>
    /\ TheLane.last_spawn_position <= 20
    /\ Len(TheLane.cars) >= 2

\* Consecutive cars of the list are exactly 6.0 apart.
SpacedBySix(cars) ==
    \A i \in 1..Len(cars) - 1 : cars[i + 1].position - cars[i].position = 60

\* C5 (as claimed): N forced spawns with a known route in sequence on the
\* empty lane yield exactly N cars, consecutive ones exactly 6.0 apart.
C5_SpawnsYieldN ==
    spawned >= 0 => (Len(TheLane.cars) = spawned /\ SpacedBySix(TheLane.cars))

\* The spawns among the first n that found the cursor above 2.0.
AcceptedSpawns(n) ==
    Cardinality({j \in 0..n - 1 : Self.last_spawn_position - 60 * j > 20})

\* C5 (amended): N forced spawns with a known route in sequence on the empty
\* lane yield one car for each spawn made while the cursor was above 2.0
\* (later ones are rejected), consecutive cars exactly 6.0 apart.
C5_SpawnsYieldAccepted ==
    spawned >= 0 =>
        /\ Len(TheLane.cars) = AcceptedSpawns(spawned)
        /\ SpacedBySix(TheLane.cars)

\* C5 witness: three spawns in sequence, two cars on the lane.
C5_Witness == spawned = 3 /\ Len(TheLane.cars) = 2

\* The add_obstacles messages of the last handler addressed to `to`.
PublishedTo(to) ==
    SelectSeq(last.out, LAMBDA m : m.type = "add_obstacles" /\ m.to = to)

\* The cars the lane counts as occupying the conflict window of x: arriving
\* at its start within 2 time units and less than 2.0 past its end.
CarsInWindow(x, cars) ==
    {i \in 1..Len(cars) :
        cars[i].position + 2 * cars[i].velocity > x.start /\ cars[i].position - 20 < x.end}

\* C8: the set a tick publishes for the Conflicting overlap is empty when no
\* car occupies the conflict window and otherwise holds exactly one
\* obstacle, at partner_start with velocity 0 and max_velocity 0, however
\* many cars are inside.
C8_ConflictingOneObstacle ==
    (last.op = "tick" /\ ~panicked) =>
        \A k \in 1..Len(PublishedTo(Self.conflicting)) :
            PublishedTo(Self.conflicting)[k].obstacles =
                IF CarsInWindow(LaneInteractions[2], TheLane.cars) = {}
                THEN <<>>
                ELSE <<Obstacle(LaneInteractions[2].partner_start, 0, 0)>>

\* C8 witness: a tick published one obstacle with two cars in the window.
C8_Witness ==
    /\ last.op = "tick"
    /\ Len(PublishedTo(Self.conflicting)) = 1
    /\ Len(PublishedTo(Self.conflicting)[1].obstacles) = 1
    /\ Cardinality(CarsInWindow(LaneInteractions[2], TheLane.cars)) >= 2

----------------------------------------------------------------------------
(* Properties of the obstacle and signal handlers (specification SpecFrame). *)

EntriesFrom(stored, from) == SelectSeq(stored, LAMBDA e : e.from = from)

EntriesNotFrom(stored, from) == SelectSeq(stored, LAMBDA e : e.from # from)

\* C9: after add_obstacles(obstacles, from) the stored entries tagged with
\* `from` are exactly the supplied set (none of its earlier entries is
\* left; none at all when the set is empty), every entry of another source
\* is still there unchanged, and nothing but the obstacle list changed.
C9_AddObstaclesReplacesSource ==
    [][last'.op = "add_obstacles" =>
          LET mine == EntriesFrom(TheLane'.obstacles, last'.from)
          IN /\ Len(mine) = Len(last'.obstacles)
             /\ \A i \in 1..Len(mine) :
                   /\ mine[i].position = last'.obstacles[i].position
                   /\ mine[i].velocity = last'.obstacles[i].velocity
                   /\ mine[i].max_velocity = last'.obstacles[i].max_velocity
             /\ EntriesNotFrom(TheLane'.obstacles, last'.from)
                    = EntriesNotFrom(TheLane.obstacles, last'.from)
             /\ TheLane' = [TheLane EXCEPT !.obstacles = TheLane'.obstacles]
             /\ last'.out = <<>>]_vars

\* C9 witness: add_obstacles stored a set of two on a lane that holds a car
\* and entries of another source.
C9_Witness ==
    /\ last.op = "add_obstacles"
    /\ Len(last.obstacles) = 2
    /\ EntriesNotFrom(TheLane.obstacles, last.from) # <<>>
    /\ TheLane.cars # <<>>

\* The Next-kind interactions of the lane whose partner is `from`.
NextTo(lane, from) ==
    {i \in 1..Len(lane.interactions) :
        lane.interactions[i].kind = "Next" /\ lane.interactions[i].partner_lane = from}

\* C10: on_signal_changed(from, green) sets the cached green flag of the
\* Next interaction to `from` and changes nothing else; without a Next
\* interaction to `from` (unknown partner, or an interaction of another
\* kind) the lane is unchanged; it sends nothing and does not panic.
C10_SignalSetsOnlyNextFlag ==
    [][last'.op = "on_signal_changed" =>
          /\ \A i \in NextTo(TheLane, last'.from) :
                TheLane' = [TheLane EXCEPT !.interactions[i].green = last'.green]
          /\ NextTo(TheLane, last'.from) = {} => TheLane' = TheLane
          /\ last'.out = <<>>
          /\ ~panicked']_vars

\* C10 witness: a signal from the Conflicting partner was ignored on a lane
\* whose Next flag an earlier signal had set to green.
C10_Witness ==
    /\ last.op = "on_signal_changed"
    /\ last.from = Self.conflicting
    /\ ~last.green
    /\ TheLane.interactions[1].green
    /\ TheLane.cars # <<>>

----------------------------------------------------------------------------
(* SpecTransfer: the transfer lane alone, its neighbours as environment.   *)

DestRight == Location(41, 41)

TransferCarInputs(trip) ==
    { LaneCar(trip, Obstacle(20, 60, 60), 0, DestNext, 0),
      LaneCar(trip, Obstacle(20, 60, 60), 0, DestRight, 0),
      LaneCar(trip, Obstacle(20, 120, 120), 0, DestNext, 0) }

TransferObstacleInputs == { <<>>, <<Obstacle(70, 0, 0)>> }

TransferApply(r) ==
    /\ transfer' = r.state
    /\ panicked' = r.panic

TransferAddCarCall(max_trips) ==
    /\ ~panicked
    /\ nextTrip <= max_trips
    /\ \E car \in TransferCarInputs(nextTrip), from \in {Transfer.left, Transfer.right} :
          LET r == transfer_add_car(transfer, car, from)
          IN /\ TransferApply(r)
             /\ last' = Call("add_car", car, from, <<>>, FALSE, r.out)
    /\ nextTrip' = nextTrip + 1
    /\ UNCHANGED <<lanes, queue, now, ticked, spawned>>

TransferAddObstacles ==
    /\ ~panicked
    /\ \E obstacles \in TransferObstacleInputs, from \in {Transfer.right} :
          LET r == transfer_add_obstacles(transfer, obstacles, from)
          IN /\ TransferApply(r)
             /\ last' = Call("add_obstacles", NoCar, from, obstacles, FALSE, r.out)
    /\ UNCHANGED <<lanes, queue, now, ticked, spawned, nextTrip>>

TransferTickCall(max_ticks) ==
    /\ ~panicked
    /\ now < Self.built_at + max_ticks
    /\ \E raw_dt \in RawDts :
          LET r == transfer_tick(transfer, raw_dt, now)
          IN /\ TransferApply(r)
             /\ last' = [Call("tick", NoCar, 0, <<>>, FALSE, r.out) EXCEPT !.dt = raw_dt]
    /\ now' = now + 1
    /\ UNCHANGED <<lanes, queue, ticked, spawned, nextTrip>>

TransferAddCar == TransferAddCarCall(MaxTransferTrips)

TransferTick == TransferTickCall(MaxTransferTicks)

NextTransfer ==
    \/ TransferAddCar
    \/ TransferAddObstacles
    \/ TransferTick

SpecTransfer == Init /\ [][NextTransfer]_vars

\* The messages of kind `type` the last call sent about `trip`.
SentAbout(type, trip) ==
    {i \in 1..Len(last'.out) :
        /\ last'.out[i].type = type
        /\ IF type = "add_car" THEN last'.out[i].car.trip = trip
           ELSE last'.out[i].trip = trip}

\* The car is handed to the right neighbour: one add_car there and nothing
\* else about its trip, or, when the right neighbour is its destination,
\* one succeed and no add_car.
HandedRight(car) ==
    IF car.destination.node = transfer.right.id
    THEN /\ Cardinality(SentAbout("succeed", car.trip)) = 1
         /\ SentAbout("add_car", car.trip) = {}
    ELSE /\ Cardinality(SentAbout("add_car", car.trip)) = 1
         /\ \A i \in SentAbout("add_car", car.trip) : last'.out[i].to = transfer.right.id
         /\ SentAbout("succeed", car.trip) = {}

\* C7: with both neighbours connected, a car whose transfer_position is
\* above 1.0 after the integration of a tick is no longer on the transfer
\* lane at the end of that tick, and was handed to the right neighbour by
\* exactly one add_car, or completed its trip when the right neighbour is
\* its destination.
C7_ExitRightSameTick ==
    [][(last'.op = "tick" /\ transfer.left.some /\ transfer.right.some) =>
          LET moved == TransferMoved(transfer, last'.dt, now)
          IN \A i \in 1..Len(moved.cars) :
                moved.cars[i].transfer_position > 10 =>
                   /\ moved.cars[i].trip \notin TripsOf(transfer'.cars)
                   /\ HandedRight(moved.cars[i])]_vars

\* A tick has just handed a car from the transfer lane to the right lane.
C7_Witness ==
    /\ last.op = "tick"
    /\ \E i \in 1..Len(last.out) :
          /\ last.out[i].type = "add_car"
          /\ last.out[i].to = Transfer.right
          /\ last.out[i].car.trip \notin TripsOf(transfer.cars)
          /\ last.out[i].car.position < Transfer.length + Transfer.right_start
                                        - Transfer.right_offset
----------------------------------------------------------------------------
(* SpecE2E: two plain lanes, A handing over to B, with the messages between *)
(* them in flight.  Every lane ticks once per tick of the simulation, the   *)
(* messages sent are delivered before the next tick.  Both lanes have an    *)
(* empty signal cycle, so the handlers read current_tick only modulo the    *)
(* throttling periods, and the clock is kept modulo the longer one.         *)

EndToEnd == [a |-> 1, b |-> 2, beyond |-> 3, start |-> 1000, partner_start |-> 0,
             b_end |-> 500, trip |-> 1, max_velocity |-> 100]

DestBeyond == Location(3, 3)

LaneA(green) ==
    NewLane(EndToEnd.a,
            << Interaction(EndToEnd.b, EndToEnd.start, EndToEnd.partner_start,
                           "Next", green, 0, "None") >>,
            << Route(DestBeyond, 0) >>, <<>>, 0)

LaneB ==
    NewLane(EndToEnd.b,
            << Interaction(EndToEnd.a, EndToEnd.partner_start, EndToEnd.start,
                           "Previous", FALSE, 0, "None"),
               Interaction(EndToEnd.beyond, EndToEnd.b_end, 0, "Next", TRUE, 0, "None") >>,
            << Route(DestBeyond, 1) >>, <<>>, 0)

EndToEndCars ==
    { LaneCar(EndToEnd.trip, Obstacle(0, v, EndToEnd.max_velocity), 0, DestBeyond, 0) :
        v \in {0, 30, 100} }

InitE2E ==
    /\ \E green \in BOOLEAN :
          lanes = [l \in {EndToEnd.a, EndToEnd.b} |->
                      IF l = EndToEnd.a THEN LaneA(green) ELSE LaneB]
    /\ \E car \in EndToEndCars : queue = << MsgAddCar(EndToEnd.a, car, 0, 0) >>
    /\ transfer = IdleTransfer
    /\ now = 0
    /\ ticked = {}
    /\ last = NoCall
    /\ spawned = 0
    /\ nextTrip = 1
    /\ panicked = FALSE

\* One lane that has not ticked yet in this tick of the simulation ticks.
E2ETick ==
    /\ ~panicked
    /\ \E l \in DOMAIN lanes \ ticked, raw_dt \in RawDts :
          LET r == tick(lanes[l], raw_dt, now, lanes[l].routes)
          IN /\ Apply(l, r)
             /\ queue' = queue \o r.out
             /\ ticked' = ticked \cup {l}
             /\ last' = [Call("tick", NoCar, 0, <<>>, FALSE, r.out) EXCEPT !.dt = raw_dt]
    /\ UNCHANGED <<transfer, now, spawned, nextTrip>>

\* The handler a message invokes on the lane it is addressed to.
Handle(lane, m) ==
    CASE m.type = "add_car" -> add_car(lane, m.car, m.from, m.tick)
      [] m.type = "add_obstacles" -> add_obstacles(lane, m.obstacles, m.from)
      [] m.type = "on_signal_changed" -> on_signal_changed(lane, m.from, m.green)
      [] OTHER -> Result(lane, <<>>)

\* The oldest message in flight is delivered; one to a trip or to a lane
\* beyond B leaves the model.
E2EDeliver ==
    /\ ~panicked
    /\ ticked = DOMAIN lanes
    /\ queue # <<>>
    /\ LET m == Head(queue)
       IN IF m.to \in DOMAIN lanes
          THEN LET r == Handle(lanes[m.to], m)
               IN /\ Apply(m.to, r)
                  /\ queue' = Tail(queue) \o r.out
                  /\ last' = Call(m.type, m.car, m.from, m.obstacles, m.green, r.out)
          ELSE /\ queue' = Tail(queue)
               /\ last' = Call(m.type, m.car, m.from, m.obstacles, m.green, <<>>)
               /\ UNCHANGED <<lanes, panicked>>
    /\ UNCHANGED <<transfer, now, ticked, spawned, nextTrip>>

\* Every lane has ticked and every message is delivered: the next tick.
E2EAdvance ==
    /\ ~panicked
    /\ ticked = DOMAIN lanes
    /\ queue = <<>>
    /\ now' = (now + 1) % TRAFFIC_LOGIC_THROTTLING
    /\ ticked' = {}
    /\ UNCHANGED <<lanes, transfer, queue, last, spawned, nextTrip, panicked>>

NextE2E ==
    \/ E2ETick
    \/ E2EDeliver
    \/ E2EAdvance

\* The simulation ticks every lane on every tick and the actor system
\* delivers every message: the system keeps taking steps.
SpecE2E == InitE2E /\ [][NextE2E]_vars /\ WF_vars(NextE2E)

OnLane(l) == EndToEnd.trip \in TripsOf(lanes[l].cars)

PositionOn(cars) ==
    cars[CHOOSE i \in 1..Len(cars) : cars[i].trip = EndToEnd.trip].position

\* The tick of A in which the car leaves A sends it to B at
\* partner_start + (position on A - start); B inserts it where the message says.
ArrivesShifted ==
    /\ (OnLane(EndToEnd.a) /\ ~OnLane(EndToEnd.a)') =>
          LET moved == LaneMoved(lanes[EndToEnd.a], last'.dt, now, lanes[EndToEnd.a].routes)
          IN \E i \in 1..Len(queue') :
                /\ queue'[i].type = "add_car"
                /\ queue'[i].to = EndToEnd.b
                /\ queue'[i].car.trip = EndToEnd.trip
                /\ queue'[i].car.position =
                      EndToEnd.partner_start + (PositionOn(moved.cars) - EndToEnd.start)
    /\ (~OnLane(EndToEnd.b) /\ OnLane(EndToEnd.b)') =>
          /\ Head(queue).type = "add_car"
          /\ Head(queue).car.trip = EndToEnd.trip
          /\ PositionOn(lanes'[EndToEnd.b].cars) = Head(queue).car.position

\* C6: with A's Next interaction at start 100.0 leading to B, B permanently
\* green and routes known, a car put on A at position 0 with max_velocity
\* 10 eventually is off A and on B, where it arrives at
\* partner_start + (its position on A - start), and no fail notification is
\* ever sent for its trip.
C6_EndToEnd ==
    /\ <>(OnLane(EndToEnd.b) /\ ~OnLane(EndToEnd.a))
    /\ [](\A i \in 1..Len(queue) : queue[i].type # "fail_at")
    /\ [][ArrivesShifted]_vars

\* The car has left A and is on B, past B's partner_start.
C6_Witness ==
    /\ OnLane(EndToEnd.b)
    /\ ~OnLane(EndToEnd.a)
    /\ PositionOn(lanes[EndToEnd.b].cars) > EndToEnd.partner_start
    /\ PositionOn(lanes[EndToEnd.b].cars) <= EndToEnd.partner_start + EndToEnd.max_velocity
----------------------------------------------------------------------------
(* Further properties of the single lane (specification Spec).             *)

\* C11 (as claimed): add_car on a car list in ascending order of position
\* leaves it in ascending order, for handed-off cars and for forced spawns.
C11_AddCarKeepsSorted ==
    [][(last'.op = "add_car" /\ Sorted(TheLane.cars)) => Sorted(TheLane'.cars)]_vars
----------------------------------------------------------------------------
(* SpecOvertake: the transfer lane with more cars over fewer ticks.        *)

OvertakeAddCar == TransferAddCarCall(MaxOvertakeTrips)

OvertakeTick == TransferTickCall(MaxOvertakeTicks)

NextOvertake ==
    \/ OvertakeAddCar
    \/ OvertakeTick

SpecOvertake == Init /\ [][NextOvertake]_vars

\* C12 (as claimed): a tick of the transfer lane that starts with the car
\* list in ascending order of position ends with it in ascending order.
C12_SortedAfterTransferTick ==
    [][(last'.op = "tick" /\ Sorted(transfer.cars)) => Sorted(transfer'.cars)]_vars
----------------------------------------------------------------------------
(* SpecNet: two plain lanes A and B side by side and the transfer lane T    *)
(* between them, with the messages among them in flight.  Actors tick in    *)
(* any order, once per tick of the simulation; a message is delivered to    *)
(* its actor at any time after it was sent and before the next tick of the  *)
(* simulation, each actor taking its messages in the order they were sent.  *)
(* Notifications to trips, and cars sent to the lane beyond, stay in        *)
(* flight: their receivers are not modelled.                                *)

Net == [a |-> 1, b |-> 2, t |-> 3, beyond |-> 4, transfer_start |-> 20,
        transfer_end |-> 200, lane_end |-> 100, transfer_length |-> 100,
        last_spawn_position |-> 30]

DestA == Location(1, 1)

DestB == Location(2, 2)

DestFar == Location(5, 5)

NetInteractions ==
    << Interaction(Net.t, Net.transfer_start, 0, "Overlap", FALSE, Net.transfer_end,
                   "Transfer"),
       Interaction(Net.beyond, Net.lane_end, 0, "Next", TRUE, 0, "None") >>

NetLaneA ==
    NewLane(Net.a, NetInteractions,
            << Route(DestA, 1), Route(DestB, 0), Route(DestFar, 0) >>, <<>>,
            Net.last_spawn_position)

NetLaneB(routes) == NewLane(Net.b, NetInteractions, routes, <<>>, Net.last_spawn_position)

NetRouteTablesB == { <<>>, << Route(DestFar, 1) >> }

NetTransferLane ==
    NewTransferLane(Net.t, Neighbour(Net.a, Net.transfer_start),
                    Neighbour(Net.b, Net.transfer_start), Net.transfer_length, 0, 0)

NetCarInputs(trip) ==
    { LaneCar(trip, Obstacle(-10, 60, 60), 0, DestFar, 0),
      LaneCar(trip, Obstacle(0, 60, 60), 0, DestB, 0),
      LaneCar(trip, Obstacle(50, 60, 60), 0, DestA, 0),
      LaneCar(trip, Obstacle(0, 30, 60), 0, DestUnknown, 0) }

InitNet ==
    /\ \E routes \in NetRouteTablesB :
          lanes = [l \in {Net.a, Net.b} |-> IF l = Net.a THEN NetLaneA ELSE NetLaneB(routes)]
    /\ transfer = NetTransferLane
    /\ queue = <<>>
    /\ now = 0
    /\ ticked = {}
    /\ last = NoCall
    /\ spawned = 0
    /\ nextTrip = 1
    /\ panicked = FALSE

Actors == DOMAIN lanes \cup {transfer.id}

\* Between two ticks of the simulation a trip puts a car on lane A: add_car
\* is sent.
NetSpawn ==
    /\ ~panicked
    /\ nextTrip <= MaxNetTrips
    /\ ticked = {}
    /\ \E car \in NetCarInputs(nextTrip) :
          queue' = Append(queue, MsgAddCar(Net.a, car, 0, now))
    /\ nextTrip' = nextTrip + 1
    /\ UNCHANGED <<lanes, transfer, now, ticked, last, spawned, panicked>>

\* tick of the actor `actor`, a plain lane or the transfer lane.
TickOf(actor, raw_dt) ==
    IF actor \in DOMAIN lanes
    THEN tick(lanes[actor], raw_dt, now, lanes[actor].routes)
    ELSE transfer_tick(transfer, raw_dt, now)

\* The handler message m invokes on its actor.
HandleOf(m) ==
    IF m.to \in DOMAIN lanes THEN Handle(lanes[m.to], m)
    ELSE CASE m.type = "add_car" -> transfer_add_car(transfer, m.car, m.from)
           [] m.type = "add_obstacles" -> transfer_add_obstacles(transfer, m.obstacles, m.from)
           [] OTHER -> Result(transfer, <<>>)

\* The outcome of a tick or a handler takes effect on its actor.
NetApply(actor, r) ==
    /\ lanes' = IF actor \in DOMAIN lanes THEN [lanes EXCEPT ![actor] = r.state] ELSE lanes
    /\ transfer' = IF actor \in DOMAIN lanes THEN transfer ELSE r.state
    /\ panicked' = r.panic

NetTick ==
    /\ ~panicked
    /\ \E actor \in Actors \ ticked, raw_dt \in RawDts :
          LET r == TickOf(actor, raw_dt)
          IN /\ NetApply(actor, r)
             /\ queue' = queue \o r.out
             /\ ticked' = ticked \cup {actor}
             /\ last' = [Call("tick", NoCar, actor, <<>>, FALSE, r.out) EXCEPT !.dt = raw_dt]
    /\ UNCHANGED <<now, spawned, nextTrip>>

\* The oldest message in flight to some actor is delivered to it.
NetDeliver ==
    /\ ~panicked
    /\ \E i \in 1..Len(queue) :
          /\ queue[i].to \in Actors
          /\ \A j \in 1..i - 1 : queue[j].to # queue[i].to
          /\ LET m == queue[i]
                 r == HandleOf(m)
             IN /\ NetApply(m.to, r)
                /\ queue' = RemoveAt(queue, i) \o r.out
                /\ last' = Call(m.type, m.car, m.from, m.obstacles, m.green, r.out)
    /\ UNCHANGED <<now, ticked, spawned, nextTrip>>

\* Every actor has ticked and taken its messages: the next tick of the
\* simulation.
NetAdvance ==
    /\ ~panicked
    /\ ticked = Actors
    /\ \A i \in 1..Len(queue) : queue[i].to \notin Actors
    /\ now + 1 < MaxNetTicks
    /\ now' = now + 1
    /\ ticked' = {}
    /\ UNCHANGED <<lanes, transfer, queue, last, spawned, nextTrip, panicked>>

NextNet ==
    \/ NetSpawn
    \/ NetTick
    \/ NetDeliver
    \/ NetAdvance

SpecNet == InitNet /\ [][NextNet]_vars

\* The places a trip's car is in: car lists of the lanes and the transfer
\* lane, add_car messages in flight, notifications sent to the trip.
OnLanes(trip) ==
    UNION {{<<l, i>> : i \in {k \in 1..Len(lanes[l].cars) : lanes[l].cars[k].trip = trip}} :
              l \in DOMAIN lanes}

OnTransfer(trip) == {i \in 1..Len(transfer.cars) : transfer.cars[i].trip = trip}

InFlight(trip) ==
    {i \in 1..Len(queue) : queue[i].type = "add_car" /\ queue[i].car.trip = trip}

Notified(trip) ==
    {i \in 1..Len(queue) : queue[i].type \in {"succeed", "fail_at"} /\ queue[i].trip = trip}

PlacesOf(trip) ==
    Cardinality(OnLanes(trip)) + Cardinality(OnTransfer(trip))
        + Cardinality(InFlight(trip)) + Cardinality(Notified(trip))

\* C13: over any interleaving of ticks and message deliveries among the
\* lanes and the transfer lane, the car of every trip that entered the
\* network is in exactly one place: one car list, one add_car message in
\* flight, or one succeed or fail notification.
C13_CarInOnePlace ==
    ~panicked => \A trip \in 1..nextTrip - 1 : PlacesOf(trip) = 1

\* C13 witness: one car went from A through the transfer lane to B, the
\* other was notified.
C13_Witness ==
    \E t1, t2 \in 1..nextTrip - 1 :
        /\ t1 # t2
        /\ \E i \in 1..Len(lanes[Net.b].cars) : lanes[Net.b].cars[i].trip = t1
        /\ Notified(t2) # {}

----------------------------------------------------------------------------
(* The red stop line (specification Spec)                                  *)

\* The interactions with every signal green.
AllGreen(interactions) ==
    [i \in DOMAIN interactions |-> [interactions[i] EXCEPT !.green = TRUE]]

\* The acceleration the traffic phase gives car c when no signal is red.
Unsignalled(lane, c) ==
    TrafficLoop(lane.cars, SortByPosition(lane.obstacles),
                AllGreen(lane.interactions), 1, 1)[c].acceleration

\* The acceleration of car c after a traffic phase that caps it, when its
\* next hop is a red Next interaction, by a standing obstacle at
\* start + offset.
SignalledAcceleration(lane, c, offset) ==
    LET car == lane.cars[c]
        hop == HopOf(lane.interactions, car)
    IN IF hop.kind = "Next" /\ ~hop.green
       THEN Min(Unsignalled(lane, c),
                intelligent_acceleration(car, Obstacle(hop.start + offset, 0, 0), 2))
       ELSE Unsignalled(lane, c)

\* Every car that stays on the lane through a traffic-phase tick leaves it
\* with the acceleration capped at start + offset.
StopLineAt(offset) ==
    (last'.op = "tick" /\ ~panicked' /\ do_traffic(Self.id, now)) =>
        \A c \in 1..Len(TheLane.cars) : \A d \in 1..Len(TheLane'.cars) :
            TheLane'.cars[d].trip = TheLane.cars[c].trip =>
                TheLane'.cars[d].acceleration = SignalledAcceleration(TheLane, c, offset)

\* C14 as stated: in the traffic phase a car whose next hop is a red Next
\* interaction is capped by the car-following acceleration toward a standing
\* obstacle 2.0 units before the interaction's start (start - 2.0); a car
\* whose next hop is green is not capped.
C14_StopLineBeforeStart == [][StopLineAt(-20)]_vars

\* C14 amended: in the traffic phase a car whose next hop is a red Next
\* interaction is capped by the car-following acceleration toward a standing
\* obstacle 2.0 units past the interaction's start (start + 2.0); a car
\* whose next hop is green is not capped.
C14_StopLinePastStart == [][StopLineAt(20)]_vars

\* A traffic-phase tick has just left a single car, with nothing ahead of
\* it but its red Next interaction, braking: only the stop line explains it.
C14_Witness ==
    /\ last.op = "tick"
    /\ do_traffic(Self.id, now - 1)
    /\ Len(TheLane.cars) = 1
    /\ TheLane.obstacles = <<>>
    /\ HopOf(TheLane.interactions, TheLane.cars[1]).kind = "Next"
    /\ ~HopOf(TheLane.interactions, TheLane.cars[1]).green
    /\ TheLane.cars[1].acceleration < 0

----------------------------------------------------------------------------
(* The hand-off of a lane with two exits (specification SpecHandOff): lane *)
(* 9 with a green Next interaction to lane 12 at 15.0 and a Transfer       *)
(* overlap with lane 14 from 2.0 to 310.0, whose 300-unit gate lies at     *)
(* 10.0.  Cars arrive from the previous lane, routed to either exit or to  *)
(* this lane itself.                                                       *)

DestSide == Location(14, 14)

HandOffInteractions ==
    << Interaction(Self.next, 150, 0, "Next", TRUE, 0, "None"),
       Interaction(14, 20, 5, "Overlap", FALSE, 3100, "Transfer"),
       Interaction(Self.previous, 0, 90, "Previous", FALSE, 0, "None") >>

HandOffRoutes == <<Route(DestNext, 0), Route(DestSide, 1), Route(DestSelf, 0)>>

HandOffCarInputs(trip) ==
    { LaneCar(trip, Obstacle(0, 30, 60), 0, DestNext, 0),
      LaneCar(trip, Obstacle(110, 60, 60), 0, DestNext, 0),
      LaneCar(trip, Obstacle(120, 60, 60), 0, DestNext, 0),
      LaneCar(trip, Obstacle(120, 60, 60), 0, DestSelf, 0),
      LaneCar(trip, Obstacle(50, 30, 60), 0, DestSide, 0),
      LaneCar(trip, Obstacle(90, 30, 60), 0, DestSide, 0) }

InitHandOff ==
    /\ lanes = [l \in {Self.id} |->
                   NewLane(Self.id, HandOffInteractions, HandOffRoutes, <<>>,
                           Self.last_spawn_position)]
    /\ transfer = IdleTransfer
    /\ queue = <<>>
    /\ now = Self.built_at
    /\ ticked = {}
    /\ last = NoCall
    /\ spawned = -1
    /\ nextTrip = 1
    /\ panicked = FALSE

HandOffAddCar ==
    /\ ~panicked
    /\ nextTrip <= MaxHandOffTrips
    /\ \E car \in HandOffCarInputs(nextTrip) :
          LET r == add_car(lanes[Self.id], car, Self.previous, now)
          IN /\ Apply(Self.id, r)
             /\ last' = Call("add_car", car, Self.previous, <<>>, FALSE, r.out)
    /\ nextTrip' = nextTrip + 1
    /\ UNCHANGED <<transfer, queue, now, ticked, spawned>>

HandOffTick ==
    /\ ~panicked
    /\ now < Self.built_at + MaxHandOffTicks
    /\ \E raw_dt \in RawDts :
          LET r == tick(lanes[Self.id], raw_dt, now, HandOffRoutes)
          IN /\ Apply(Self.id, r)
             /\ last' = [Call("tick", NoCar, 0, <<>>, FALSE, r.out) EXCEPT !.dt = raw_dt]
    /\ now' = now + 1
    /\ UNCHANGED <<transfer, queue, ticked, spawned, nextTrip>>

NextHandOff == HandOffAddCar \/ HandOffTick

SpecHandOff == InitHandOff /\ [][NextHandOff]_vars

\* The hand-off messages of the call just made, in the order they were sent.
HandOffs(out) == SelectSeq(out, LAMBDA m : m.type \in {"add_car", "succeed"})

\* Where the car of a trip stands when the hand-off loop of the tick being
\* taken starts: after the integration and the clamp.
MovedPosition(trip) ==
    LET moved == LaneMoved(TheLane, last'.dt, now, HandOffRoutes).cars
        i == CHOOSE x \in 1..Len(moved) : moved[x].trip = trip
    IN moved[i].position

\* The index of the car of a trip in the lane's list.
IndexOf(cars, trip) == CHOOSE x \in 1..Len(cars) : cars[x].trip = trip

\* C15 as stated: the cars handed off in one tick are removed, and their
\* add_car / succeed messages sent, rearmost first: in ascending order of
\* position.
C15_RearmostFirst ==
    [][(last'.op = "tick" /\ ~panicked') =>
          LET sent == HandOffs(last'.out)
          IN \A i, j \in 1..Len(sent) :
                i < j => MovedPosition(sent[i].trip) <= MovedPosition(sent[j].trip)]_vars

\* C15 amended: the cars handed off in one tick are removed, and their
\* add_car / succeed messages sent, frontmost first: from the end of the car
\* list to its head, in descending order of position.
C15_FrontmostFirst ==
    [][(last'.op = "tick" /\ ~panicked') =>
          LET sent == HandOffs(last'.out)
          IN \A i, j \in 1..Len(sent) :
                i < j => /\ IndexOf(TheLane.cars, sent[i].trip)
                             > IndexOf(TheLane.cars, sent[j].trip)
                         /\ MovedPosition(sent[i].trip) >= MovedPosition(sent[j].trip)]_vars

\* A tick has just handed off two cars that stood at different positions,
\* the one further ahead first, and left a third on the lane.
C15_Witness ==
    /\ last.op = "tick"
    /\ Len(TheLane.cars) = 1
    /\ LET sent == HandOffs(last.out)
       IN /\ Len(sent) = 2
          /\ sent[1].type = "add_car"
          /\ sent[2].type = "add_car"
          /\ sent[1].car.position > sent[2].car.position
          /\ sent[1].to = sent[2].to

\* The car has passed the start of its next-hop interaction and, when that
\* is a Transfer overlap, the point 300.0 before its end.
Qualifies(interactions, car) ==
    LET hop == interactions[car.next_hop_interaction + 1]
    IN IF hop.kind = "Overlap" /\ hop.okind = "Transfer"
       THEN ~(car.position <= hop.start \/ car.position <= hop.end - 3000)
       ELSE ~(car.position <= hop.start)

\* C16: at the end of a lane's tick no car left in its list qualifies for
\* hand-off (each is at or before the start of its next-hop interaction or,
\* for a Transfer overlap, at or before the start or the point 300.0 before
\* the end), and every car that qualified after the integration of the tick
\* has left the list.
C16_NoneLeftToHandOff ==
    [][(last'.op = "tick" /\ ~panicked') =>
          /\ \A i \in 1..Len(TheLane'.cars) :
                ~Qualifies(TheLane'.interactions, TheLane'.cars[i])
          /\ LET moved == LaneMoved(TheLane, last'.dt, now, HandOffRoutes).cars
             IN \A c \in 1..Len(moved) :
                   Qualifies(TheLane.interactions, moved[c])
                       => moved[c].trip \notin TripsOf(TheLane'.cars)]_vars

\* A tick has just handed off two cars and kept one that is inside its
\* Transfer overlap but not yet past the gate.
C16_Witness ==
    /\ last.op = "tick"
    /\ Len(HandOffs(last.out)) = 2
    /\ \E i \in 1..Len(TheLane.cars) :
          LET car == TheLane.cars[i]
              hop == TheLane.interactions[car.next_hop_interaction + 1]
          IN /\ hop.okind = "Transfer"
             /\ car.position > hop.start
             /\ car.position <= hop.end - 3000

----------------------------------------------------------------------------
(* Signal propagation (specification SpecSignal): lane 9 with a signal     *)
(* plan and two upstream lanes, 5 and 7, each holding a Next interaction   *)
(* to it; lane 7 also leads on to lane 13.  The lanes are built while the  *)
(* simulation stands at tick 8: lane 9 has its first traffic phase at tick *)
(* 9, and its plan moves to the next entry at tick 10.  The upstream lanes *)
(* start with either value cached.                                         *)

Signal == [d |-> 9, u1 |-> 5, u2 |-> 7, other |-> 13, beyond |-> 12, built_at |-> 8]

SignalPlans == { <<>>, <<FALSE, TRUE>>, <<TRUE, FALSE>>, <<TRUE, TRUE>>, <<TRUE, FALSE, TRUE>> }

SignalLaneD(timings) ==
    NewLane(Signal.d,
            << Interaction(Signal.u1, 0, 150, "Previous", FALSE, 0, "None"),
               Interaction(Signal.beyond, 150, 0, "Next", FALSE, 0, "None"),
               Interaction(Signal.u2, 0, 150, "Previous", FALSE, 0, "None") >>,
            <<>>, timings, 0)

SignalLaneU1(green) ==
    NewLane(Signal.u1, << Interaction(Signal.d, 150, 0, "Next", green, 0, "None") >>,
            <<>>, <<>>, 0)

SignalLaneU2(green) ==
    NewLane(Signal.u2,
            << Interaction(Signal.other, 150, 0, "Next", ~green, 0, "None"),
               Interaction(Signal.d, 150, 0, "Next", green, 0, "None") >>,
            <<>>, <<>>, 0)

InitSignal ==
    /\ \E timings \in SignalPlans, g1, g2 \in BOOLEAN :
          lanes = [l \in {Signal.d, Signal.u1, Signal.u2} |->
                      IF l = Signal.d THEN SignalLaneD(timings)
                      ELSE IF l = Signal.u1 THEN SignalLaneU1(g1)
                      ELSE SignalLaneU2(g2)]
    /\ transfer = IdleTransfer
    /\ queue = <<>>
    /\ now = Signal.built_at
    /\ ticked = {}
    /\ last = NoCall
    /\ spawned = -1
    /\ nextTrip = 1
    /\ panicked = FALSE

\* Every lane has ticked and every message is delivered: the next tick.
SignalAdvance ==
    /\ ~panicked
    /\ ticked = DOMAIN lanes
    /\ queue = <<>>
    /\ now + 1 < Signal.built_at + MaxSignalTicks
    /\ now' = now + 1
    /\ ticked' = {}
    /\ UNCHANGED <<lanes, transfer, queue, last, spawned, nextTrip, panicked>>

NextSignal ==
    \/ E2ETick
    \/ E2EDeliver
    \/ SignalAdvance

SpecSignal == InitSignal /\ [][NextSignal]_vars

\* The green flag lane u caches for its Next interaction to lane d.
CachedGreen(u, d) ==
    LET i == CHOOSE x \in 1..Len(lanes[u].interactions) :
                /\ lanes[u].interactions[x].kind = "Next"
                /\ lanes[u].interactions[x].partner_lane = d
    IN lanes[u].interactions[i].green

\* The lanes that hold a Next interaction to d and are Previous partners of d.
Upstream(d) ==
    {u \in DOMAIN lanes :
        /\ \E x \in 1..Len(lanes[u].interactions) :
              /\ lanes[u].interactions[x].kind = "Next"
              /\ lanes[u].interactions[x].partner_lane = d
        /\ \E y \in 1..Len(lanes[d].interactions) :
              /\ lanes[d].interactions[y].kind = "Previous"
              /\ lanes[d].interactions[y].partner_lane = u}

\* The tick being taken is lane d's.
TickOfLane(d) == last'.op = "tick" /\ ticked' = ticked \cup {d} /\ d \notin ticked

\* Lane d has had a traffic phase since it was built.
HadTrafficPhase(d) == \E t \in Signal.built_at..now : do_traffic(d, t)

\* The tick of the simulation is over: every lane ticked, nothing in flight.
TickSettled == ticked = DOMAIN lanes /\ queue = <<>>

\* C17: in every tick in which lane D's green changes, or which is D's
\* traffic phase, D sends on_signal_changed(D, D.green) to each of its
\* Previous partners; and from D's first traffic phase on, once the messages
\* of a tick are delivered, every upstream lane caches D's green of that tick.
C17_SignalPropagates ==
    [][/\ (TickOfLane(Signal.d)
            /\ (lanes'[Signal.d].green # lanes[Signal.d].green
                \/ do_traffic(Signal.d, now)))
          => \A u \in Upstream(Signal.d) :
                Cardinality({i \in 1..Len(last'.out) :
                               last'.out[i] = MsgSignal(u, Signal.d, lanes'[Signal.d].green)}) = 1
       /\ (TickSettled /\ HadTrafficPhase(Signal.d))'
          => \A u \in Upstream(Signal.d) :
                CachedGreen(u, Signal.d)' = lanes'[Signal.d].green]_vars

\* After D's first traffic phase its signal has changed, and both upstream
\* lanes, which had cached the other value, hold the new one.
C17_Witness ==
    /\ TickSettled
    /\ now = Signal.built_at + 2
    /\ lanes[Signal.d].timings = <<FALSE, TRUE>>
    /\ lanes[Signal.d].green
    /\ Upstream(Signal.d) = {Signal.u1, Signal.u2}
    /\ \A u \in Upstream(Signal.d) : CachedGreen(u, Signal.d)

----------------------------------------------------------------------------
(* Publication of obstacles (specification SpecPublish): lane 9, built at  *)
(* tick 8, with partners whose traffic phases are the ticks 9 (lane 39,    *)
(* Next), 10 (lane 10, Conflicting overlap) and 11 (lane 41, Previous).    *)

PublishInteractions ==
    << Interaction(39, 150, 0, "Next", FALSE, 0, "None"),
       Interaction(10, 60, 40, "Overlap", FALSE, 100, "Conflicting"),
       Interaction(41, 0, 90, "Previous", FALSE, 0, "None") >>

InitPublish ==
    /\ \E routes \in RouteTables :
          lanes = [l \in {Self.id} |->
                      NewLane(Self.id, PublishInteractions, routes, <<>>,
                              Self.last_spawn_position)]
    /\ transfer = IdleTransfer
    /\ queue = <<>>
    /\ now = Self.built_at
    /\ ticked = {}
    /\ last = NoCall
    /\ spawned = -1
    /\ nextTrip = 1
    /\ panicked = FALSE

PublishAddCar == AddCarCall(MaxPublishTrips)

PublishTick == TickCall(MaxPublishTicks)

\* The Conflicting partner publishes its obstacles to the lane.
PublishAddObstacles == AddObstaclesCall(ObstacleInputs, {10})

NextPublish == PublishAddCar \/ PublishAddObstacles \/ PublishTick

SpecPublish == InitPublish /\ [][NextPublish]_vars

\* The number of add_obstacles messages the call being made sends to the
\* partner of interaction x.
PublishedFor(x) ==
    Cardinality({i \in 1..Len(last'.out) :
                    last'.out[i].type = "add_obstacles" /\ last'.out[i].to = x.partner_lane})

\* The resolver has an outbound set for the interaction: one for an Overlap
\* or a Previous interaction, none for a Next interaction.
HasOutboundSet(x) == x.kind \in {"Overlap", "Previous"}

\* C18 as stated: a tick t publishes the obstacle set of an interaction
\* exactly when t mod 30 is the partner's identity mod 30.
C18_OnPartnersPhase ==
    [][(last'.op = "tick" /\ ~panicked') =>
          \A i \in 1..Len(TheLane.interactions) :
              LET x == TheLane.interactions[i]
              IN HasOutboundSet(x) =>
                    (PublishedFor(x) >= 1
                        <=> now % TRAFFIC_LOGIC_THROTTLING
                               = x.partner_lane % TRAFFIC_LOGIC_THROTTLING)]_vars

\* C18 amended: a tick t publishes the obstacle set of an Overlap or Previous
\* interaction, once, exactly when (t + 1) mod 30 is the partner's identity
\* mod 30: the tick before the partner's phase; nothing is published on any
\* other tick, and never for a Next interaction.
C18_BeforePartnersPhase ==
    [][(last'.op = "tick" /\ ~panicked') =>
          \A i \in 1..Len(TheLane.interactions) :
              LET x == TheLane.interactions[i]
              IN PublishedFor(x) =
                    IF HasOutboundSet(x)
                       /\ (now + 1) % TRAFFIC_LOGIC_THROTTLING
                              = x.partner_lane % TRAFFIC_LOGIC_THROTTLING
                    THEN 1 ELSE 0]_vars

\* Tick 10 has just published the cars of the lane to lane 41, whose phase
\* is tick 11.
C18_Witness ==
    /\ last.op = "tick"
    /\ now % TRAFFIC_LOGIC_THROTTLING = 41 % TRAFFIC_LOGIC_THROTTLING
    /\ \E i \in 1..Len(last.out) :
          /\ last.out[i].type = "add_obstacles"
          /\ last.out[i].to = 41
          /\ last.out[i].obstacles # <<>>

----------------------------------------------------------------------------
(* Fallback routing (specification Spec)                                   *)

\* add_car inserted the car it was called with and failed nothing.
CarInserted ==
    /\ InsertedOnce(TheLane.cars, TheLane'.cars, last'.car.trip)
    /\ last'.out = <<>>

\* add_car left the list as it was and failed the car's trip.
CarFailed ==
    /\ TheLane'.cars = TheLane.cars
    /\ last'.out = <<MsgFail(last'.car.trip, Self.id, now)>>

\* The next hop of the car add_car has just inserted.
HopGiven ==
    LET i == CHOOSE x \in 1..Len(TheLane'.cars) : TheLane'.cars[x].trip = last'.car.trip
    IN TheLane'.cars[i].next_hop_interaction

\* The entry of the route table the velocity of the car selects.
FallbackEntry(routes, car) == routes[((car.velocity * 1000) % Len(routes)) + 1]

\* C19 as stated: a car with neither an exact nor a landmark route that is
\* not a forced spawn is inserted, with a fallback next hop, when the route
\* table of the lane is empty; a forced spawn without a route is given no
\* fallback.
C19_FallbackOnEmptyTable ==
    [][(last'.op = "add_car" /\ ~HasRoute(TheLane, last'.car)) =>
          /\ (last'.car.position >= 0 /\ TheLane.routes = <<>>) => CarInserted
          /\ last'.car.position < 0 => CarFailed]_vars

\* C19 amended: a car with neither an exact nor a landmark route that is not
\* a forced spawn is inserted, with the next hop of the route-table entry its
\* velocity selects, when the route table of the lane is not empty, and is
\* failed when the table is empty; a forced spawn without a route is given
\* no fallback and is failed.
C19_FallbackOnKnownRoutes ==
    [][(last'.op = "add_car" /\ ~HasRoute(TheLane, last'.car)) =>
          /\ (last'.car.position >= 0 /\ TheLane.routes # <<>>)
                => /\ CarInserted
                   /\ HopGiven = FallbackEntry(TheLane.routes, last'.car).outgoing_idx
          /\ (last'.car.position >= 0 /\ TheLane.routes = <<>>) => CarFailed
          /\ last'.car.position < 0 => CarFailed]_vars

\* A handed-off car for a destination no table knows has just been inserted
\* on a lane whose route table holds other destinations.
C19_Witness ==
    /\ last.op = "add_car"
    /\ last.car.position >= 0
    /\ ~HasRoute(TheLane, last.car)
    /\ TheLane.routes # <<>>
    /\ last.out = <<>>
    /\ last.car.trip \in TripsOf(TheLane.cars)

----------------------------------------------------------------------------
(* Stale routes (specification SpecStale): the lane of the single-lane     *)
(* scenario, whose interaction list has three entries, with a route table  *)
(* that was computed for a longer interaction list: an entry points at     *)
(* index 3 or 5.                                                           *)

StaleRouteTables ==
    { <<Route(DestNext, 0), Route(DestSelf, 3)>>,
      <<Route(DestNext, 5), Route(DestSelf, 0)>>,
      <<Route(DestNext, 0), Route(DestSelf, 0)>> }

InitStale ==
    /\ \E routes \in StaleRouteTables :
          lanes = [l \in {Self.id} |->
                      NewLane(Self.id, LaneInteractions, routes, <<>>,
                              Self.last_spawn_position)]
    /\ transfer = IdleTransfer
    /\ queue = <<>>
    /\ now = Self.built_at
    /\ ticked = {}
    /\ last = NoCall
    /\ spawned = -1
    /\ nextTrip = 1
    /\ panicked = FALSE

StaleAddCar == AddCarCall(MaxStaleTrips)

StaleTick == TickCall(MaxStaleTicks)

NextStale == StaleAddCar \/ StaleTick

SpecStale == InitStale /\ [][NextStale]_vars

\* C20: every car in the lane's list has a next_hop_interaction below the
\* length of the lane's interaction list, whatever the route table held when
\* add_car set it, and no tick indexes the interaction list out of bounds.
C20_NextHopInBounds ==
    /\ \A i \in 1..Len(TheLane.cars) :
          TheLane.cars[i].next_hop_interaction < Len(TheLane.interactions)
    /\ ~panicked

----------------------------------------------------------------------------
(* The obstacle a car follows (specification Spec)                         *)

\* The stored obstacles at or beyond the car's position plus 0.1.
ObstaclesAhead(lane, car) ==
    {k \in 1..Len(lane.obstacles) : lane.obstacles[k].position >= car.position + 1}

\* Those of them with the smallest position.
NearestAhead(lane, car) ==
    {k \in ObstaclesAhead(lane, car) :
        \A j \in ObstaclesAhead(lane, car) :
            lane.obstacles[k].position <= lane.obstacles[j].position}

\* The acceleration of car c from the car ahead and the stop line alone.
WithoutObstacles(lane, c) == CarAcceleration(lane.cars, <<>>, lane.interactions, c, 1)

\* Car c left the traffic phase with acceleration acc, which takes the
\* nearest stored obstacle ahead of it into account, with headway 4.0, or
\* none when no stored obstacle is ahead.
FollowsNearest(lane, c, acc) ==
    IF ObstaclesAhead(lane, lane.cars[c]) = {}
    THEN acc = WithoutObstacles(lane, c)
    ELSE \E k \in NearestAhead(lane, lane.cars[c]) :
            acc = Min(WithoutObstacles(lane, c),
                      intelligent_acceleration(lane.cars[c], lane.obstacles[k], 4))

\* C21: in the traffic phase of a tick, the external obstacle each car's
\* acceleration takes into account is the stored obstacle of smallest
\* position at or beyond the car's position plus 0.1, or none when no stored
\* obstacle is that far ahead, whatever add_car, add_obstacles and tick
\* calls came before.
C21_FollowsNearestObstacle ==
    [][(last'.op = "tick" /\ ~panicked' /\ do_traffic(Self.id, now)) =>
          \A c \in 1..Len(TheLane.cars) : \A d \in 1..Len(TheLane'.cars) :
              TheLane'.cars[d].trip = TheLane.cars[c].trip =>
                  FollowsNearest(TheLane, c, TheLane'.cars[d].acceleration)]_vars

----------------------------------------------------------------------------
(* What a lane reports to its Previous partner (specification SpecPublish) *)

\* The cars and the stored obstacles of the lane, as obstacles.
CarsAndObstacles(lane) == Reprojected(lane.cars, 0) \o Reprojected(lane.obstacles, 0)

\* The items at or past start - 2.0 of interaction x.
AtOrPast(lane, x) ==
    {i \in 1..Len(CarsAndObstacles(lane)) :
        CarsAndObstacles(lane)[i].position >= x.start - 20}

\* The set is the nearest of the items at or past start - 2.0, shifted into
\* the partner's coordinates, or empty when there is no such item.
NearestReported(lane, x, obstacles) ==
    IF AtOrPast(lane, x) = {} THEN obstacles = <<>>
    ELSE \E i \in AtOrPast(lane, x) :
            /\ \A j \in AtOrPast(lane, x) :
                  CarsAndObstacles(lane)[i].position <= CarsAndObstacles(lane)[j].position
            /\ obstacles = <<offset_by(CarsAndObstacles(lane)[i], x.partner_start - x.start)>>

\* C22: the set a tick publishes for a Previous interaction holds at most
\* one obstacle: the nearest item, among the lane's cars and stored
\* obstacles together, at or past start - 2.0, shifted by
\* partner_start - start; it is empty when there is no such item.
C22_PreviousReportsNearest ==
    (last.op = "tick" /\ ~panicked) =>
        \A i \in 1..Len(TheLane.interactions) : \A k \in 1..Len(last.out) :
            (/\ TheLane.interactions[i].kind = "Previous"
             /\ last.out[k].type = "add_obstacles"
             /\ last.out[k].to = TheLane.interactions[i].partner_lane)
                => NearestReported(TheLane, TheLane.interactions[i], last.out[k].obstacles)

----------------------------------------------------------------------------
(* A parallel overlap (specification SpecParallel): lane 9, built at tick  *)
(* 8, overlaps lane 39 in parallel from 6.0 to 10.0; lane 39 has its phase *)
(* at tick 9, so lane 9 publishes to it in tick 8.                         *)

ParallelInteractions ==
    << Interaction(Self.next, 150, 0, "Next", FALSE, 0, "None"),
       Interaction(39, 60, 40, "Overlap", FALSE, 100, "Parallel"),
       Interaction(Self.previous, 0, 90, "Previous", FALSE, 0, "None") >>

InitParallel ==
    /\ \E routes \in RouteTables :
          lanes = [l \in {Self.id} |->
                      NewLane(Self.id, ParallelInteractions, routes, <<>>,
                              Self.last_spawn_position)]
    /\ transfer = IdleTransfer
    /\ queue = <<>>
    /\ now = Self.built_at
    /\ ticked = {}
    /\ last = NoCall
    /\ spawned = -1
    /\ nextTrip = 1
    /\ panicked = FALSE

ParallelAddCar == AddCarCall(MaxParallelTrips)

ParallelTick == TickCall(MaxParallelTicks)

NextParallel == ParallelAddCar \/ ParallelTick

SpecParallel == InitParallel /\ [][NextParallel]_vars

\* The cars whose projected position has reached the start of x and whose
\* position is before its end, in list order, shifted into the partner's
\* coordinates.
InParallelWindow(x, cars) ==
    Reprojected(SelectSeq(cars, LAMBDA c : /\ c.position + 2 * c.velocity >= x.start
                                           /\ c.position < x.end),
                x.partner_start - x.start)

\* C23: the set a tick publishes for a Parallel overlap holds exactly the
\* cars c of the lane with c.position + 2 * c.velocity >= start and
\* c.position < end, each shifted by partner_start - start, whatever the
\* positions and velocities of the cars.
C23_ParallelWindowOnly ==
    (last.op = "tick" /\ ~panicked) =>
        \A i \in 1..Len(TheLane.interactions) : \A k \in 1..Len(last.out) :
            (/\ TheLane.interactions[i].okind = "Parallel"
             /\ last.out[k].type = "add_obstacles"
             /\ last.out[k].to = TheLane.interactions[i].partner_lane)
                => last.out[k].obstacles
                      = InParallelWindow(TheLane.interactions[i], TheLane.cars)

----------------------------------------------------------------------------
(* Entering and staying on the transfer lane (specification SpecTransfer)  *)

\* The car add_car was just called with is on the transfer lane once, at
\* the lateral position given, at lateral rest, not cancelling.
EnteredAt(transfer_position) ==
    /\ Cardinality({i \in 1..Len(transfer'.cars) :
                       transfer'.cars[i].trip = last'.car.trip}) = 1
    /\ \A i \in 1..Len(transfer'.cars) :
          transfer'.cars[i].trip = last'.car.trip
             => /\ transfer'.cars[i].transfer_position = transfer_position
                /\ transfer'.cars[i].transfer_velocity = 0
                /\ ~transfer'.cars[i].cancelling

\* The lateral acceleration of the car add_car was just called with.
EnteredAcceleration ==
    LET i == CHOOSE x \in 1..Len(transfer'.cars) : transfer'.cars[x].trip = last'.car.trip
    IN transfer'.cars[i].transfer_acceleration

\* C24 as stated: a car entering from the left neighbour starts at lateral
\* position +1 with lateral velocity 0 and negative lateral acceleration, a
\* car entering from the right neighbour at -1 with positive lateral
\* acceleration; cancelling starts false and the car list is sorted by
\* position afterwards.
C24_LeftStartsAtPlusOne ==
    [][(last'.op = "add_car" /\ ~panicked') =>
          /\ IF last'.from = transfer.left.id
             THEN EnteredAt(10) /\ EnteredAcceleration < 0
             ELSE EnteredAt(-10) /\ EnteredAcceleration > 0
          /\ Sorted(transfer'.cars)]_vars

\* C24 amended: a car entering from the left neighbour starts at lateral
\* position -1 with lateral velocity 0 and positive lateral acceleration
\* (+0.3, toward 0), a car entering from the right neighbour at +1 with
\* negative lateral acceleration (-0.3); cancelling starts false and the car
\* list is sorted by position afterwards.
C24_LeftStartsAtMinusOne ==
    [][(last'.op = "add_car" /\ ~panicked') =>
          /\ IF last'.from = transfer.left.id
             THEN EnteredAt(-10) /\ EnteredAcceleration = 3
             ELSE EnteredAt(10) /\ EnteredAcceleration = -3
          /\ Sorted(transfer'.cars)]_vars

\* A car has just entered from the left behind a car that entered earlier
\* and has moved on: it stands first in the list, at lateral position -1.
C24_Witness ==
    /\ last.op = "add_car"
    /\ last.from = transfer.left.id
    /\ Len(transfer.cars) = 2
    /\ transfer.cars[1].trip = last.car.trip
    /\ transfer.cars[1].position < transfer.cars[2].position
    /\ transfer.cars[1].transfer_position = -10
    /\ transfer.cars[1].transfer_acceleration = 3

----------------------------------------------------------------------------
(* Cancelling a transfer (specification SpecCancel): the transfer lane 39  *)
(* over 32 ticks from tick 8, which holds its traffic phases 9 and 39.     *)
(* Cars enter standing or moving; the left neighbour reports an obstacle   *)
(* beside the entry point, the right neighbour one 2.0 ahead of it, and    *)
(* either takes its report back.                                           *)

CancelCarInputs(trip) ==
    { LaneCar(trip, Obstacle(20, 0, 60), 0, DestNext, 0),
      LaneCar(trip, Obstacle(20, 60, 60), 0, DestNext, 0) }

CancelAddCar ==
    /\ ~panicked
    /\ nextTrip <= MaxCancelTrips
    /\ \E car \in CancelCarInputs(nextTrip) :
          LET r == transfer_add_car(transfer, car, Transfer.left)
          IN /\ TransferApply(r)
             /\ last' = Call("add_car", car, Transfer.left, <<>>, FALSE, r.out)
    /\ nextTrip' = nextTrip + 1
    /\ UNCHANGED <<lanes, queue, now, ticked, spawned>>

CancelAddObstacles ==
    /\ ~panicked
    /\ \E from \in {Transfer.left, Transfer.right} :
       \E obstacles \in {<<>>, IF from = Transfer.left THEN <<Obstacle(20, 0, 0)>>
                                                       ELSE <<Obstacle(30, 0, 0)>>} :
          LET r == transfer_add_obstacles(transfer, obstacles, from)
          IN /\ TransferApply(r)
             /\ last' = Call("add_obstacles", NoCar, from, obstacles, FALSE, r.out)
    /\ UNCHANGED <<lanes, queue, now, ticked, spawned, nextTrip>>

CancelTick == TransferTickCall(MaxCancelTicks)

NextCancel == CancelAddCar \/ CancelAddObstacles \/ CancelTick

SpecCancel == Init /\ [][NextCancel]_vars

\* Some obstacle the car considers in a traffic phase (the car ahead, the
\* left or right obstacle it is exposed to) is less than 0.1 ahead of it.
InDanger(tlane, car) ==
    LET sorted == [tlane EXCEPT !.left_obstacles = SortByPosition(@),
                                !.right_obstacles = SortByPosition(@)]
        considered == ConsideredObstacles(sorted, car)
    IN \E i \in 1..Len(considered) : considered[i].position < car.position + 1

\* The step is a tick of the transfer lane with its traffic phase.
TransferTrafficTick == last'.op = "tick" /\ do_traffic(transfer.id, now)

\* C25: for each car during its stay on the transfer lane, cancelling never
\* goes from true back to false, and the lateral acceleration changes only
\* by being negated, only while the car is not cancelling, only in a
\* traffic phase in which a considered obstacle is less than 0.1 ahead of
\* it, and together with cancelling being set: so at most once, in the first
\* such tick, and not again in later dangerous ticks.
C25_CancelsOnce ==
    [][~panicked' =>
          \A c \in 1..Len(transfer.cars) : \A d \in 1..Len(transfer'.cars) :
              transfer'.cars[d].trip = transfer.cars[c].trip =>
                  LET before == transfer.cars[c]
                      after == transfer'.cars[d]
                      first_danger == /\ TransferTrafficTick
                                      /\ InDanger(transfer, before)
                                      /\ ~before.cancelling
                  IN /\ before.cancelling => after.cancelling
                     /\ first_danger
                           => /\ after.cancelling
                              /\ after.transfer_acceleration = -before.transfer_acceleration
                     /\ ~first_danger
                           => /\ after.cancelling = before.cancelling
                              /\ after.transfer_acceleration
                                    = before.transfer_acceleration]_vars

\* The second traffic phase is about to run on a car that cancelled its
\* transfer earlier and is in danger again.
C25_Witness ==
    /\ now = 39
    /\ ~panicked
    /\ \E c \in 1..Len(transfer.cars) :
          /\ transfer.cars[c].cancelling
          /\ transfer.cars[c].transfer_acceleration = -3
          /\ InDanger(transfer, transfer.cars[c])

----------------------------------------------------------------------------
(* A transfer lane being connected (specification SpecConnect): the        *)
(* transfer lane 39 starts with either neighbour known or not yet known,   *)
(* and the lane module connects the missing ones while obstacle sets       *)
(* arrive from both sides.                                                 *)

ConnectObstacleInputs == { <<>>, <<Obstacle(70, 0, 0)>>, <<Obstacle(50, 30, 30), Obstacle(90, 0, 0)>> }

InitConnect ==
    /\ \E left \in {NoNeighbour, Neighbour(Transfer.left, Transfer.left_start)},
          right \in {NoNeighbour, Neighbour(Transfer.right, Transfer.right_start)} :
          transfer = NewTransferLane(Transfer.id, left, right, Transfer.length,
                                     Transfer.left_offset, Transfer.right_offset)
    /\ lanes = [l \in {Self.id} |->
                   NewLane(Self.id, LaneInteractions, <<>>, <<>>, Self.last_spawn_position)]
    /\ queue = <<>>
    /\ now = Self.built_at
    /\ ticked = {}
    /\ last = NoCall
    /\ spawned = -1
    /\ nextTrip = 1
    /\ panicked = FALSE

\* The lane module makes a neighbour known to the transfer lane.
Connect ==
    /\ ~panicked
    /\ \/ /\ ~transfer.left.some
          /\ transfer' = [transfer EXCEPT
                             !.left = Neighbour(Transfer.left, Transfer.left_start)]
       \/ /\ ~transfer.right.some
          /\ transfer' = [transfer EXCEPT
                             !.right = Neighbour(Transfer.right, Transfer.right_start)]
    /\ last' = NoCall
    /\ UNCHANGED <<lanes, queue, now, ticked, spawned, nextTrip, panicked>>

ConnectAddObstacles ==
    /\ ~panicked
    /\ \E obstacles \in ConnectObstacleInputs, from \in {Transfer.left, Transfer.right} :
          LET r == transfer_add_obstacles(transfer, obstacles, from)
          IN /\ TransferApply(r)
             /\ last' = Call("add_obstacles", NoCar, from, obstacles, FALSE, r.out)
    /\ UNCHANGED <<lanes, queue, now, ticked, spawned, nextTrip>>

\* Cars enter once the left neighbour, which add_car expects, is known.
ConnectAddCar == transfer.left.some /\ TransferAddCarCall(MaxConnectTrips)

ConnectTick == TransferTickCall(MaxConnectTicks)

NextConnect == Connect \/ ConnectAddObstacles \/ ConnectAddCar \/ ConnectTick

SpecConnect == InitConnect /\ [][NextConnect]_vars

\* The set as the transfer lane stores it for the side it came from.
StoredFrom(obstacles, from_left) ==
    [i \in 1..Len(obstacles) |->
        offset_by(obstacles[i],
                  interaction_to_self_offset(transfer, obstacles[i].position, from_left))]

\* C26: while the left or the right neighbour is not known, add_obstacles on
\* a transfer lane leaves both obstacle slots and the car list as they are
\* and raises no error; once both are known, a set from the left neighbour
\* replaces the left slot and leaves the right one, and a set from the right
\* neighbour replaces the right slot and leaves the left one.
C26_SlotsBySide ==
    [][last'.op = "add_obstacles" =>
          /\ ~panicked'
          /\ last'.out = <<>>
          /\ transfer'.cars = transfer.cars
          /\ IF ~(transfer.left.some /\ transfer.right.some)
             THEN /\ transfer'.left_obstacles = transfer.left_obstacles
                  /\ transfer'.right_obstacles = transfer.right_obstacles
             ELSE IF last'.from = transfer.left.id
             THEN /\ transfer'.left_obstacles = StoredFrom(last'.obstacles, TRUE)
                  /\ transfer'.right_obstacles = transfer.right_obstacles
             ELSE /\ last'.from = transfer.right.id
                  /\ transfer'.right_obstacles = StoredFrom(last'.obstacles, FALSE)
                  /\ transfer'.left_obstacles = transfer.left_obstacles]_vars

\* A set from the left neighbour has just been dropped, because the right
\* neighbour is not known yet, on a transfer lane that holds a car.
C26_Witness ==
    /\ last.op = "add_obstacles"
    /\ last.from = Transfer.left
    /\ last.obstacles # <<>>
    /\ transfer.left.some
    /\ ~transfer.right.some
    /\ transfer.left_obstacles = <<>>
    /\ transfer.cars # <<>>

----------------------------------------------------------------------------
(* The signal flags of a lane (specification SpecSignal)                   *)

\* Lane l has ticked since it was built.
HasTicked(l) == l \in ticked \/ now > Signal.built_at

\* C27: after every tick of a lane at tick number t with a timing cycle of
\* length L > 0, green is timings[(t div 10) mod L], yellow_to_green is
\* timings[((t + 100) div 10) mod L] and yellow_to_red is its negation; a
\* lane with an empty cycle is green after every tick, and stays green from
\* its first tick on.
C27_FlagsFollowCycle ==
    [][\A l \in DOMAIN lanes :
          LET timings == lanes[l].timings
              L == Len(timings)
              after == lanes'[l]
          IN /\ (TickOfLane(l) /\ L > 0)
                   => /\ after.green = timings[((now \div 10) % L) + 1]
                      /\ after.yellow_to_green = timings[(((now + 100) \div 10) % L) + 1]
                      /\ after.yellow_to_red = ~after.yellow_to_green
             /\ (TickOfLane(l) /\ L = 0) => after.green
             /\ (HasTicked(l) /\ L = 0) => after.green]_vars

\* At tick 10 the lane with the cycle <<TRUE, FALSE, TRUE>> has ticked into
\* its second entry: red, with the yellow flags announcing the third.
C27_Witness ==
    /\ now = 10
    /\ Signal.d \in ticked
    /\ lanes[Signal.d].timings = <<TRUE, FALSE, TRUE>>
    /\ ~lanes[Signal.d].green
    /\ lanes[Signal.d].yellow_to_green
    /\ ~lanes[Signal.d].yellow_to_red
    /\ lanes[Signal.u1].green
====
